---------------------------- MODULE Spec2Model ----------------------------
(***************************************************************************)
(* People page of the constituency dashboard (src/src/pages/People.tsx),   *)
(* its spreadsheet service (src/src/services/googleSheets.ts) and the row  *)
(* conversion (src/src/utils/typeHelpers.ts).                              *)
(*                                                                         *)
(* JavaScript values are records [t, s]: t is the typeof tag and s the     *)
(* text as a sequence of glyphs.  A glyph is either one blank " " or a     *)
(* maximal run of non-blank characters ("9876543210", "abcde1234f"), so    *)
(* trim() removes leading and trailing blanks and toUpperCase() maps a     *)
(* run to its upper-case run.                                              *)
(***************************************************************************)
EXTENDS Naturals, Sequences, FiniteSets, TLC

-----------------------------------------------------------------------------
(* JavaScript values and string primitives *)

Str(s) == [t |-> "string", s |-> s]

Num(run) == [t |-> "number", s |-> <<run>>]

Undefined == [t |-> "undefined", s |-> <<>>]

EmptyString == Str(<<>>)

\* if (v) ... / v || d : undefined, '' and 0 are falsy
Truthy(v) ==
    \/ v.t = "string" /\ v.s # <<>>
    \/ v.t = "number" /\ v.s # <<"0">>

OrElse(v, d) == IF Truthy(v) THEN v ELSE d

\* String(value): the text of a string or a number, "undefined" for undefined
StringOf(v) == IF v.t = "undefined" THEN <<"undefined">> ELSE v.s

RECURSIVE TrimStart(_)
TrimStart(s) ==
    IF s # <<>> /\ Head(s) = " " THEN TrimStart(Tail(s)) ELSE s

RECURSIVE TrimEnd(_)
TrimEnd(s) ==
    IF s # <<>> /\ s[Len(s)] = " " THEN TrimEnd(SubSeq(s, 1, Len(s) - 1)) ELSE s

Trim(s) == TrimEnd(TrimStart(s))

UpperRun(g) ==
    CASE g = "ab12" -> "AB12"
      [] g = "cd34" -> "CD34"
      [] g = "na" -> "NA"
      [] g = "abcde1234f" -> "ABCDE1234F"
      [] g = "pqrsx5678k" -> "PQRSX5678K"
      [] g = "abc1234567" -> "ABC1234567"
      [] g = "xyz7654321" -> "XYZ7654321"
      [] OTHER -> g

toUpperCase(s) == [i \in 1..Len(s) |-> UpperRun(s[i])]

\* Array.prototype.find, given the indexes of the elements that pass the test:
\* the index of the first match, 0 when there is none
find(hits) ==
    IF hits = {} THEN 0
    ELSE CHOOSE i \in hits : \A j \in hits : i <= j

-----------------------------------------------------------------------------
(* People.tsx helpers *)

UniqueFields == {"phone", "aadharNumber", "panNumber", "voterIdNumber"}

NoId == "undefined"

NoErrors ==
    [phone |-> <<>>, aadharNumber |-> <<>>, panNumber |-> <<>>, voterIdNumber |-> <<>>]

safeString(value) ==
    IF \/ value.t = "undefined"
       \/ value = Str(<<"NA">>)
       \/ value = EmptyString
    THEN <<>>
    ELSE Trim(StringOf(value))

AlreadyRegistered(person) == <<"Already registered for ">> \o StringOf(person.name)

\* people.find(...) of the Aadhaar check: index of the duplicate, 0 for none
aadharDuplicate(data, people, excludeId) ==
    LET aadharStr == safeString(data.aadharNumber)
    IN  find({i \in 1..Len(people) :
            LET person == people[i]
            IN  /\ person.id # excludeId
                /\ safeString(person.aadharNumber) = aadharStr
                /\ safeString(person.aadharNumber) # <<>>})

\* variant of panDuplicate: the PAN search keeps the last match instead of the first
panDuplicateLast(data, people, excludeId) ==
    LET panStr == toUpperCase(safeString(data.panNumber))
        hits == {i \in 1..Len(people) :
                    /\ people[i].id # excludeId
                    /\ toUpperCase(safeString(OrElse(people[i].panNumber, EmptyString))) = panStr
                    /\ safeString(OrElse(people[i].panNumber, EmptyString)) # <<>>}
    IN  IF hits = {} THEN 0 ELSE CHOOSE i \in hits : \A j \in hits : j <= i

\* variant of panDuplicate that upper-cases only the submitted value
panDuplicateCase(data, people, excludeId) ==
    LET panStr == toUpperCase(safeString(data.panNumber))
    IN  find({i \in 1..Len(people) :
            LET person == people[i]
            IN  /\ person.id # excludeId
                /\ safeString(OrElse(person.panNumber, EmptyString)) = panStr
                /\ safeString(OrElse(person.panNumber, EmptyString)) # <<>>})

panDuplicate(data, people, excludeId) ==
    LET panStr == toUpperCase(safeString(data.panNumber))
    IN  find({i \in 1..Len(people) :
            LET person == people[i]
            IN  /\ person.id # excludeId
                /\ toUpperCase(safeString(OrElse(person.panNumber, EmptyString))) = panStr
                /\ safeString(OrElse(person.panNumber, EmptyString)) # <<>>})

voterIdDuplicate(data, people, excludeId) ==
    LET voterIdStr == toUpperCase(safeString(data.voterIdNumber))
    IN  find({i \in 1..Len(people) :
            LET person == people[i]
            IN  /\ person.id # excludeId
                /\ toUpperCase(safeString(OrElse(person.voterIdNumber, EmptyString))) = voterIdStr
                /\ safeString(OrElse(person.voterIdNumber, EmptyString)) # <<>>})

\* variant of phoneDuplicate: the phone search does not skip the record being edited
phoneDuplicateSelf(data, people, excludeId) ==
    LET phoneStr == safeString(data.phone)
    IN  find({i \in 1..Len(people) :
            LET person == people[i]
            IN  /\ safeString(person.phone) = phoneStr
                /\ safeString(person.phone) # <<>>})

phoneDuplicate(data, people, excludeId) ==
    LET phoneStr == safeString(data.phone)
    IN  find({i \in 1..Len(people) :
            LET person == people[i]
            IN  /\ person.id # excludeId
                /\ safeString(person.phone) = phoneStr
                /\ safeString(person.phone) # <<>>})

\* the errors object validateUniqueFields builds for data against the roster
\* `people` its closure holds, skipping the record whose id is excludeId
validateUniqueFields(data, people, excludeId) ==
    LET aadharStr == safeString(data.aadharNumber)
        aadharHit == aadharDuplicate(data, people, excludeId)
        panStr == toUpperCase(safeString(data.panNumber))
        panHit == panDuplicate(data, people, excludeId)
        voterIdStr == toUpperCase(safeString(data.voterIdNumber))
        voterIdHit == voterIdDuplicate(data, people, excludeId)
        phoneStr == safeString(data.phone)
        phoneHit == phoneDuplicate(data, people, excludeId)
    IN  [aadharNumber |->
            IF aadharStr # <<>> /\ aadharHit # 0
            THEN AlreadyRegistered(people[aadharHit]) ELSE <<>>,
         panNumber |->
            IF panStr # <<>> /\ panHit # 0
            THEN AlreadyRegistered(people[panHit]) ELSE <<>>,
         voterIdNumber |->
            IF voterIdStr # <<>> /\ voterIdHit # 0
            THEN AlreadyRegistered(people[voterIdHit]) ELSE <<>>,
         phone |->
            IF phoneStr # <<>> /\ phoneHit # 0
            THEN AlreadyRegistered(people[phoneHit]) ELSE <<>>]

\* Object.values(errors).filter(error => error !== '').length > 0
\* variant of hasErrors that looks at the phone error only
hasErrorsPhone(errors) == errors.phone # <<>>

hasErrors(errors) == \E f \in UniqueFields : errors[f] # <<>>

-----------------------------------------------------------------------------
(* typeHelpers.ts *)

PersonFields == {"id", "name", "direction"} \cup UniqueFields

\* ids convertToPeople generates for rows without one: person_<now>_<index>
RowId(index) == <<"person_row_1", "person_row_2", "person_row_3", "person_row_4">>[index]

convertToPeople(rawData) ==
    [index \in 1..Len(rawData) |->
        LET row == rawData[index]
        IN  [id |-> IF row.id # "" THEN row.id ELSE RowId(index),
             name |-> OrElse(row.name, EmptyString),
             phone |-> OrElse(row.phone, EmptyString),
             direction |-> IF row.direction # "" THEN row.direction ELSE "East",
             aadharNumber |-> OrElse(row.aadharNumber, Str(<<"000000000000">>)),
             panNumber |-> OrElse(row.panNumber, Str(<<"ABCDE1234F">>)),
             voterIdNumber |-> OrElse(row.voterIdNumber, Str(<<"ABC1234567">>))]]

-----------------------------------------------------------------------------
(* The remote People sheet behind the Apps Script endpoint *)

\* CREATE appends the row that was sent
SheetCreate(rows, personData) == Append(rows, personData)

\* UPDATE overwrites, in the row with that id, the fields the request carries
\* (JSON.stringify drops the undefined ones)
SheetUpdate(rows, id, data) ==
    [i \in 1..Len(rows) |->
        IF rows[i].id # id THEN rows[i]
        ELSE [f \in PersonFields |->
                IF f \in {"id", "direction"} THEN rows[i][f]
                ELSE IF data[f].t = "undefined" THEN rows[i][f] ELSE data[f]]]

\* DELETE removes the row with that id
SheetDelete(rows, id) == SelectSeq(rows, LAMBDA r : r.id # id)

-----------------------------------------------------------------------------
(* Bounds and input domains *)

\* People write requests (create, update, delete) a tab may send in one run
MaxWrites == 2

\* fresh ids person_<now>_<random> of created persons
FreshIds == <<"person_new_1", "person_new_2", "person_new_3", "person_new_4">>

Tabs == {"tab1", "tab2"}

Directions == {"East", "West"}

Superadmin == [role |-> "superadmin", direction |-> ""]

Admin(d) == [role |-> "admin", direction |-> d]

Users == {Superadmin, Admin("East"), Admin("")}

Asha ==
    [id |-> "p1", name |-> Str(<<"Asha">>), direction |-> "East",
     phone |-> Str(<<"9876543210">>), aadharNumber |-> Str(<<"111122223333">>),
     panNumber |-> Str(<<"AAAAA1111A">>), voterIdNumber |-> Str(<<"AAA1111111">>)]

Ravi ==
    [id |-> "p2", name |-> Str(<<"Ravi">>), direction |-> "West",
     phone |-> Num("9123456780"), aadharNumber |-> Str(<<"123412341234">>),
     panNumber |-> Str(<<"pqrsx5678k">>), voterIdNumber |-> Str(<<"BBB2222222">>)]

\* the sheets a run may start from
Sheets == {<<>>, <<Asha, Ravi>>}

\* what the user can have in an input of the add form
AddTyped(f) ==
    CASE f = "phone" -> {EmptyString, Str(<<"9000000001">>)}
      [] f = "aadharNumber" -> {EmptyString, Str(<<"123412341234">>)}
      [] f = "panNumber" -> {EmptyString, Str(<<"PQRSX5678K">>)}
      [] f = "voterIdNumber" -> {EmptyString, Str(<<"XYZ7654321">>)}

\* what the DOM input of an edited row can hold after a keystroke or paste
\* (the phone and PAN inputs are the ones the modelled user edits inline)
EditTyped(f) ==
    CASE f = "phone" -> {<<>>, <<" ", "9123456780">>}
      [] f = "aadharNumber" -> {}
      [] f = "panNumber" -> {<<"pqrsx5678k">>}
      [] f = "voterIdNumber" -> {}

Names == {Str(<<"Meena">>)}

\* register(...) patterns of the add form (People.tsx 997, 1050, 1106, 1162):
\* the runs of the model that match each regular expression
PatternOK(f, v) ==
    /\ v.t = "string"
    /\ Len(v.s) = 1
    /\ CASE f = "phone" -> v.s[1] \in {"9876543210", "9123456780", "9000000001"}
         [] f = "aadharNumber" -> v.s[1] \in {"123412341234", "111122223333", "000000000000"}
         [] f = "panNumber" -> v.s[1] \in {"PQRSX5678K", "AAAAA1111A", "ABCDE1234F"}
         [] f = "voterIdNumber" -> v.s[1] \in {"XYZ7654321", "AAA1111111", "BBB2222222", "ABC1234567"}

-----------------------------------------------------------------------------
(* State.  Every page variable is a function of the browser tab. *)

VARIABLES
    sheet,                  \* rows of the remote People sheet
    created,                \* number of fresh person ids handed out so far
    quota,                  \* number of People write requests each tab may still send
    fetched,                \* how each tab's load of the sheet ended: "pending", "ok", "failed"
    gestures,               \* what the user of each tab does: "add", "edit", "delete",
                            \* and "linger": goes on after the last write
    user,                   \* useAuth().user of each tab
    open,                   \* tabs in which the People page is mounted
    dialog,                 \* the alert or confirmation each page showed in the last step
    loading, people, showModal, submitting, editingId, editData,
    formValues,             \* watch(): the four watched inputs of the add form
    addValidationErrors, editValidationErrors,
    addTimer, editTimer,    \* pending debounce timeouts with what they captured
    request,                \* the People write request in flight
    closureSubmitting,      \* `submitting` as the handlers of the last render captured it
    inFlight,               \* the write requests of a page that have not settled
    dashStats, dashLoading, \* Dashboard: stats, loading
    dashFetched,            \* how the reads of fetchDashboardData ended
    vData, vPeople, vExcludeId, vErrors, vRan,  \* validator harness
    vEarlier,               \* validator harness: what the earlier page variant's validator gives
    callbackName,           \* jsonpRequest: the callback name each request drew
    window,                 \* window[callbackName]: the request whose callback is registered
    inHead,                 \* whether a request's script tag is in document.head
    script,                 \* what has happened to a request's script so far
    promise,                \* state of the promise jsonpRequest returned
    settledWith,            \* the response or the error the promise settled with
    postLoadTimer, overallTimer,    \* pending timeouts of a request
    route,                  \* the page the router shows
    alerts,                 \* the alerts the Messages or Templates page showed in the last step
    localStorage,           \* browser storage: key -> value, "none" for an absent key
    authUser, authLoading, authError,   \* AuthProvider: user, loading, error
    authVerify,             \* the token initializeAuth is verifying, "none" when it is done
    authLogin,              \* the email of the login call in flight, "none" without one
    msgSheet,               \* rows of the remote Messages sheet
    msgMessages, msgPeople, msgTemplates, msgLoading, msgSending, msgShowModal,
    msgSelectedPeople,      \* selectedPeople: the ids ticked in the form of the Messages page
    authRegister,           \* the register call in flight: its request body and bearer
    regPage,                \* Register page: "form", "sending" or "success"
    admSubmitting, admMessage,   \* AdminManagement: submitting, message
    admCall,                \* what the AdminManagement page awaits
    admSample, admSuccessCount,  \* addSampleAdmins: index in sampleAdmins, successCount
    msgReads,               \* the three reads of fetchData: state and response of each
    msgCall,                \* what the Messages page awaits
    msgPath,                \* the branch of onSubmit that is running
    msgBearer,              \* the bearer token of the POST to /api/messages in flight
    msgQuota,               \* number of messages the user may still send
    tplSheet,               \* rows of the remote Templates sheet
    tplTemplates, tplLoading, tplDeleteLoading,
    tplCall,                \* what the Templates page awaits
    tplDeleteOutcome,       \* how the last DELETE of a template ended
    tplQuota                \* number of templates the user may still delete

pageVars ==
    <<dialog, loading, people, showModal, submitting, editingId, editData, formValues,
      addValidationErrors, editValidationErrors, addTimer, editTimer, request>>

harnessVars == <<vData, vPeople, vExcludeId, vErrors, vEarlier, vRan>>

dashVars == <<dashStats, dashLoading, dashFetched>>

\* what the event-level view of the write handlers adds to the page state
eventVars == <<closureSubmitting, inFlight>>

peopleCore ==
    <<sheet, created, quota, gestures, fetched, user, open, pageVars, harnessVars, eventVars,
      dashVars>>

regVars ==
    <<authRegister, regPage, admSubmitting, admMessage, admCall, admSample, admSuccessCount>>

peopleVars == <<peopleCore, msgSelectedPeople, regVars>>

jsonpVars ==
    <<callbackName, window, inHead, script, promise, settledWith, postLoadTimer, overallTimer>>

authVars == <<localStorage, authUser, authLoading, authError, authVerify, authLogin>>

msgVars ==
    <<msgSheet, msgMessages, msgPeople, msgTemplates, msgLoading, msgSending, msgShowModal,
      msgReads, msgCall, msgPath, msgBearer, msgQuota>>

tplVars ==
    <<tplSheet, tplTemplates, tplLoading, tplDeleteLoading, tplCall, tplDeleteOutcome, tplQuota>>

appVars == <<route, alerts, authVars, msgVars, tplVars>>

\* what the People page and the validator harness never touch
otherVars == <<jsonpVars, appVars, eventVars, dashVars, msgSelectedPeople, regVars>>

vars == <<peopleVars, otherVars>>

\* editData = {}
EmptyEdit ==
    [id |-> NoId, name |-> Undefined, direction |-> "",
     phone |-> Undefined, aadharNumber |-> Undefined,
     panNumber |-> Undefined, voterIdNumber |-> Undefined]

BlankForm == [f \in UniqueFields |-> EmptyString]

NoRequest == [action |-> "none", id |-> NoId, data |-> EmptyEdit]

getUserDirection(u) ==
    IF u.role = "superadmin" THEN ""
    ELSE IF u.role = "admin" /\ u.direction # "" THEN u.direction
    ELSE ""

\* how a request to the Apps Script can end: a successful response, a response
\* with success = false, or a rejected JSONP promise (script error, loaded
\* without a callback, overall timeout)
Rejections == {"scriptError", "noCallback", "timeout"}
Outcomes == {"ok", "unsuccessful"} \cup Rejections

Returned(response) == [throws |-> FALSE, success |-> response.success, data |-> response.data]
Thrown == [throws |-> TRUE, success |-> FALSE, data |-> <<>>]

\* makeRequest(action, sheetName, data): throws unless the response has success
makeRequest(outcome, rows) ==
    IF outcome \in Rejections THEN Thrown
    ELSE LET response == [success |-> outcome = "ok", data |-> rows]
         IN  IF ~response.success THEN Thrown ELSE Returned(response)

\* variant of getPeople: the failure of makeRequest is passed on
getPeopleRethrows(outcome) == makeRequest(outcome, sheet)

\* sheetsService.getPeople(): a failed read is answered with success and no rows
getPeople(outcome) ==
    LET response == makeRequest(outcome, sheet)
    IN  IF response.throws THEN Returned([success |-> TRUE, data |-> <<>>])
        ELSE IF response.success THEN response
        ELSE Returned([success |-> TRUE, data |-> <<>>])

\* variant of sheetsServiceWrite: the success flag of the response is not looked at
sheetsServiceWriteUnchecked(outcome) ==
    Returned([success |-> outcome \notin Rejections, data |-> <<>>])

\* createPerson / updatePerson / deletePerson of the service: a failure of
\* makeRequest is caught and answered with success = false
sheetsServiceWrite(outcome) ==
    LET response == makeRequest(outcome, <<>>)
    IN  IF response.throws THEN Returned([success |-> FALSE, data |-> <<>>])
        ELSE response

\* alert(...) and window.confirm(...): dialog[t] is what the last step showed on
\* page t, with the answer to a confirmation
quiet == dialog' = [t \in Tabs |-> "none"]

shows(t, what) == dialog' = [u \in Tabs |-> IF u = t THEN what ELSE "none"]

hasValuesToValidate(values) ==
    \E f \in UniqueFields : Truthy(values[f]) /\ safeString(values[f]) # <<>>

\* the add-form debounce effect: its cleanup clears the timeout of the previous
\* run, then a new timeout is set unless the effect returns early
addEffect(t, rerun, show, values, ppl) ==
    IF ~rerun THEN addTimer[t]
    ELSE IF ~show \/ ~hasValuesToValidate(values) THEN {}
    ELSE {[data |-> values, people |-> ppl, excludeId |-> NoId]}

editEffect(t, rerun, eid, edata, ppl) ==
    IF ~rerun THEN editTimer[t]
    ELSE IF eid = NoId \/ ~hasValuesToValidate(edata) THEN {}
    ELSE {[data |-> edata, people |-> ppl, excludeId |-> eid]}

hasAddValidationErrors(t) == \E f \in UniqueFields : addValidationErrors[t][f] # <<>>

hasEditValidationErrors(t) == \E f \in UniqueFields : editValidationErrors[t][f] # <<>>

\* the modal is a fixed overlay over the whole viewport (zIndex 50): the rows of
\* the table take no pointer input while it is shown
tableReachable(t) == ~showModal[t]

\* disabled attribute of the add form's submit button
\* variant of addSubmitDisabled without the validation-error term
addSubmitDisabledBusy(t) == submitting[t]

addSubmitDisabled(t) == submitting[t] \/ hasAddValidationErrors(t)

\* disabled attribute of the Save button of the row being edited
editSaveDisabled(t) == submitting[t] \/ hasEditValidationErrors(t)

PageInit(tabsOpen, does, who, rows, most) ==
    /\ sheet \in rows
    /\ created = 0
    /\ quota = [t \in Tabs |-> most]
    /\ open = tabsOpen
    /\ gestures = does
    /\ fetched = [t \in Tabs |-> "pending"]
    /\ user \in [Tabs -> who \cup {Superadmin}]
    /\ \A t \in tabsOpen : user[t] \in who
    /\ \A t \in Tabs \ tabsOpen : user[t] = Superadmin
    /\ dialog = [t \in Tabs |-> "none"]
    /\ loading = [t \in Tabs |-> TRUE]
    /\ people = [t \in Tabs |-> <<>>]
    /\ showModal = [t \in Tabs |-> FALSE]
    /\ submitting = [t \in Tabs |-> FALSE]
    /\ editingId = [t \in Tabs |-> NoId]
    /\ editData = [t \in Tabs |-> EmptyEdit]
    /\ formValues = [t \in Tabs |-> BlankForm]
    /\ addValidationErrors = [t \in Tabs |-> NoErrors]
    /\ editValidationErrors = [t \in Tabs |-> NoErrors]
    /\ addTimer = [t \in Tabs |-> {}]
    /\ editTimer = [t \in Tabs |-> {}]
    /\ request = [t \in Tabs |-> NoRequest]
    /\ closureSubmitting = [t \in Tabs |-> FALSE]
    /\ inFlight = [t \in Tabs |-> <<>>]

HarnessIdle ==
    /\ vData = BlankForm
    /\ vPeople = <<>>
    /\ vExcludeId = NoId
    /\ vErrors = NoErrors
    /\ vEarlier = [throws |-> FALSE, errors |-> NoErrors]
    /\ vRan = FALSE

\* the JSONP requests of one run
Requests == {"r1", "r2"}

\* 'jsonp_callback_' + Math.round(100000 * Math.random())
CallbackNames == {"jsonp_callback_1", "jsonp_callback_2"}

\* no JSONP request has been issued
JsonpIdle ==
    /\ callbackName = [r \in Requests |-> "none"]
    /\ window = [n \in CallbackNames |-> "none"]
    /\ inHead = [r \in Requests |-> FALSE]
    /\ script = [r \in Requests |-> "none"]
    /\ promise = [r \in Requests |-> "none"]
    /\ settledWith = [r \in Requests |-> "none"]
    /\ postLoadTimer = [r \in Requests |-> FALSE]
    /\ overallTimer = [r \in Requests |-> FALSE]

\* the accounts of the auth backend, their tokens and their users
Accounts == {"super@portal", "east@portal"}

UserOf(email) == IF email = "super@portal" THEN Superadmin ELSE Admin("East")

TokenOf(email) == IF email = "super@portal" THEN "jwt_super" ELSE "jwt_east"

OwnerOf(token) == IF token = "jwt_super" THEN "super@portal" ELSE "east@portal"

\* useState<User | null>(null)
NoUser == [role |-> "none", direction |-> ""]

\* the keys Messages.getAuthToken tries, in its order
possibleKeys == <<"authToken", "token", "accessToken", "jwt", "bearer_token">>

StorageKeys == {"auth_token", "auth_user"} \cup {possibleKeys[i] : i \in 1..Len(possibleKeys)}

EmptyStorage == [key \in StorageKeys |-> "none"]

ReadNames == {"messages", "people", "templates"}

NoRead == [state |-> "idle", data |-> <<>>]

Welcome == [id |-> "t1", title |-> "Welcome"]

Reminder == [id |-> "t2", title |-> "Reminder"]

\* ids createMessage generates: message_<now>_<random>
MessageIds == <<"message_new_1", "message_new_2", "message_new_3">>

\* Messages page before it is mounted
MessagesUnmounted ==
    /\ msgMessages = <<>>
    /\ msgPeople = <<>>
    /\ msgTemplates = <<>>
    /\ msgLoading = TRUE
    /\ msgSending = FALSE
    /\ msgShowModal = FALSE
    /\ msgSelectedPeople = {}
    /\ msgReads = [k \in ReadNames |-> NoRead]
    /\ msgCall = "none"
    /\ msgPath = "none"
    /\ msgBearer = "none"

\* Templates page before it is mounted
TemplatesUnmounted ==
    /\ tplTemplates = <<>>
    /\ tplLoading = TRUE
    /\ tplDeleteLoading = "null"
    /\ tplCall = "none"
    /\ tplDeleteOutcome = "none"

\* the application is not running: nothing stored, nobody signed in
AppIdle ==
    /\ route = "login"
    /\ alerts = <<>>
    /\ localStorage = EmptyStorage
    /\ authUser = NoUser
    /\ authLoading = FALSE
    /\ authError = "null"
    /\ authVerify = "none"
    /\ authLogin = "none"
    /\ msgSheet = <<>>
    /\ msgQuota = 0
    /\ MessagesUnmounted
    /\ tplSheet = <<>>
    /\ tplQuota = 0
    /\ TemplatesUnmounted

\* Dashboard before fetchDashboardData has run
DashboardIdle ==
    /\ dashStats = [totalPeople |-> 0, totalMessages |-> 0]
    /\ dashLoading = TRUE
    /\ dashFetched = "pending"

NoRegister == [body |-> [email |-> "none", role |-> "none", direction |-> "undefined"],
               bearer |-> "none"]

\* no register call in flight; Register and AdminManagement pages as mounted
RegisterIdle ==
    /\ authRegister = NoRegister
    /\ regPage = "form"
    /\ admSubmitting = FALSE
    /\ admMessage = "null"
    /\ admCall = "none"
    /\ admSample = 0
    /\ admSuccessCount = 0

OthersIdle == JsonpIdle /\ AppIdle /\ DashboardIdle /\ RegisterIdle

Init ==
    /\ PageInit({"tab1"}, [t \in Tabs |-> {"add", "edit", "delete", "linger"}],
                Users, Sheets, MaxWrites)
    /\ HarnessIdle
    /\ OthersIdle

-----------------------------------------------------------------------------
(* People.tsx: load *)

fetchData(t, outcome) ==
    /\ t \in open
    /\ loading[t]
    /\ LET sheetsResponse == getPeople(outcome)
           convertedData == convertToPeople(sheetsResponse.data)
           userDirection == getUserDirection(user[t])
           filteredSheets ==
               IF sheetsResponse.throws \/ ~sheetsResponse.success THEN <<>>
               ELSE IF userDirection # ""
               THEN SelectSeq(convertedData, LAMBDA person : person.direction = userDirection)
               ELSE convertedData
       IN  /\ people' = [people EXCEPT ![t] = filteredSheets]
           /\ addTimer' = [addTimer EXCEPT ![t] =
                  addEffect(t, TRUE, showModal[t], formValues[t], filteredSheets)]
           /\ editTimer' = [editTimer EXCEPT ![t] =
                  editEffect(t, TRUE, editingId[t], editData[t], filteredSheets)]
    /\ loading' = [loading EXCEPT ![t] = FALSE]
    /\ fetched' = [fetched EXCEPT ![t] = IF outcome = "ok" THEN "ok" ELSE "failed"]
    /\ quiet
    /\ UNCHANGED <<quota, gestures, sheet, created, user, open, showModal, submitting, editingId,
                   editData, formValues, addValidationErrors, editValidationErrors,
                   request, harnessVars, otherVars>>

-----------------------------------------------------------------------------
(* People.tsx: add form *)

\* "Add Person" button (disabled while submitting)
openModal(t) ==
    /\ t \in open
    /\ "add" \in gestures[t]
    /\ "linger" \in gestures[t] \/ quota[t] > 0
    /\ ~loading[t]
    /\ ~submitting[t]
    /\ ~showModal[t]
    /\ showModal' = [showModal EXCEPT ![t] = TRUE]
    /\ addTimer' = [addTimer EXCEPT ![t] =
           addEffect(t, TRUE, TRUE, formValues[t], people[t])]
    /\ quiet
    /\ UNCHANGED <<quota, gestures, fetched, sheet, created, user, open, loading, people, submitting, editingId,
                   editData, formValues, addValidationErrors, editValidationErrors,
                   editTimer, request, harnessVars, otherVars>>

\* variant of closeModal that clears the errors of both modes
closeModalBoth(t) ==
    /\ t \in open
    /\ showModal[t]
    /\ showModal' = [showModal EXCEPT ![t] = FALSE]
    /\ addValidationErrors' = [addValidationErrors EXCEPT ![t] = NoErrors]
    /\ editValidationErrors' = [editValidationErrors EXCEPT ![t] = NoErrors]
    /\ addTimer' = [addTimer EXCEPT ![t] =
           addEffect(t, TRUE, FALSE, formValues[t], people[t])]
    /\ quiet
    /\ UNCHANGED <<quota, gestures, fetched, sheet, created, user, open, loading, people, submitting, editingId,
                   editData, formValues, editTimer, request,
                   harnessVars, otherVars>>

\* the X and Cancel buttons of the modal
closeModal(t) ==
    /\ t \in open
    /\ showModal[t]
    /\ showModal' = [showModal EXCEPT ![t] = FALSE]
    /\ addValidationErrors' = [addValidationErrors EXCEPT ![t] = NoErrors]
    /\ addTimer' = [addTimer EXCEPT ![t] =
           addEffect(t, TRUE, FALSE, formValues[t], people[t])]
    /\ quiet
    /\ UNCHANGED <<quota, gestures, fetched, sheet, created, user, open, loading, people, submitting, editingId,
                   editData, formValues, editValidationErrors, editTimer, request,
                   harnessVars, otherVars>>

\* the user changes one of the four watched inputs of the add form
addFormChange(t, field, value) ==
    /\ t \in open
    /\ showModal[t]
    /\ value # formValues[t][field]
    /\ LET values == [formValues[t] EXCEPT ![field] = value]
       IN  /\ formValues' = [formValues EXCEPT ![t] = values]
           /\ addTimer' = [addTimer EXCEPT ![t] =
                  addEffect(t, TRUE, TRUE, values, people[t])]
    /\ quiet
    /\ UNCHANGED <<quota, gestures, fetched, sheet, created, user, open, loading, people, showModal, submitting,
                   editingId, editData, addValidationErrors, editValidationErrors,
                   editTimer, request, harnessVars, otherVars>>

\* the 800 ms timeout of the add-form effect fires
addTimerFire(t) ==
    /\ t \in open
    /\ \E c \in addTimer[t] :
        /\ addValidationErrors' = [addValidationErrors EXCEPT ![t] =
               validateUniqueFields(c.data, c.people, NoId)]
        /\ addTimer' = [addTimer EXCEPT ![t] = addTimer[t] \ {c}]
    /\ quiet
    /\ UNCHANGED <<quota, gestures, fetched, sheet, created, user, open, loading, people, showModal, submitting,
                   editingId, editData, formValues, editValidationErrors, editTimer,
                   request, harnessVars, otherVars>>

\* the direction onSubmit stores: the form's, overridden for a scoped admin
\* variant of assignedDirection that always stores the form's direction
assignedDirectionForm(u, formDirection) == formDirection

assignedDirection(u, formDirection) ==
    IF u.role = "admin" /\ u.direction # "" THEN u.direction ELSE formDirection

newPerson(u, data, id) ==
    [id |-> id,
     name |-> data.name,
     phone |-> data.phone,
     aadharNumber |-> data.aadharNumber,
     direction |-> assignedDirection(u, data.direction),
     panNumber |-> Str(toUpperCase(safeString(data.panNumber))),
     voterIdNumber |-> Str(toUpperCase(safeString(data.voterIdNumber)))]

\* the direction input of the add form: a required select for a superadmin, a
\* read-only input defaulting to user.direction otherwise
FormDirections(u) ==
    IF u.role = "superadmin" THEN Directions ELSE {u.direction, ""}

\* handleSubmit(onSubmit): the form is submitted with its submit button enabled
\* and every registered pattern satisfied
onSubmit(t, name, formDirection) ==
    /\ t \in open
    /\ showModal[t]
    /\ ~addSubmitDisabled(t)
    /\ \A f \in UniqueFields : PatternOK(f, formValues[t][f])
    /\ ~submitting[t]
    /\ LET data == [f \in PersonFields |->
                      IF f \in UniqueFields THEN formValues[t][f]
                      ELSE IF f = "name" THEN name
                      ELSE IF f = "direction" THEN formDirection
                      ELSE NoId]
           errors == validateUniqueFields(data, people[t], NoId)
       IN  /\ hasErrors(errors) \/ quota[t] > 0
           /\ addValidationErrors' = [addValidationErrors EXCEPT ![t] = errors]
           /\ IF hasErrors(errors)
              THEN UNCHANGED <<submitting, request, created, quota>>
              ELSE /\ submitting' = [submitting EXCEPT ![t] = TRUE]
                   /\ created' = created + 1
                   /\ quota' = [quota EXCEPT ![t] = quota[t] - 1]
                   /\ request' = [request EXCEPT ![t] =
                          [action |-> "CREATE", id |-> FreshIds[created + 1],
                           data |-> newPerson(user[t], data, FreshIds[created + 1])]]
    /\ quiet
    /\ UNCHANGED <<gestures, fetched, sheet, user, open, loading, people, showModal, editingId, editData,
                   formValues, editValidationErrors, addTimer, editTimer, harnessVars, otherVars>>

\* the CREATE request settles
createResponse(t, outcome) ==
    /\ t \in open
    /\ request[t].action = "CREATE"
    /\ request' = [request EXCEPT ![t] = NoRequest]
    /\ submitting' = [submitting EXCEPT ![t] = FALSE]
    /\ LET sheetsResult == sheetsServiceWrite(outcome)
       IN
       IF ~sheetsResult.throws /\ sheetsResult.success
       THEN LET personData == request[t].data
                roster == <<personData>> \o people[t]
            IN  /\ shows(t, "created")
                /\ sheet' = SheetCreate(sheet, personData)
                /\ people' = [people EXCEPT ![t] = roster]
                /\ showModal' = [showModal EXCEPT ![t] = FALSE]
                /\ formValues' = [formValues EXCEPT ![t] = BlankForm]
                /\ addValidationErrors' = [addValidationErrors EXCEPT ![t] = NoErrors]
                /\ addTimer' = [addTimer EXCEPT ![t] =
                       addEffect(t, TRUE, FALSE, BlankForm, roster)]
                /\ editTimer' = [editTimer EXCEPT ![t] =
                       editEffect(t, TRUE, editingId[t], editData[t], roster)]
       ELSE /\ shows(t, IF sheetsResult.throws THEN "createError" ELSE "createFailed")
            /\ UNCHANGED <<sheet, people, showModal, formValues, addValidationErrors,
                        addTimer, editTimer>>
    /\ UNCHANGED <<quota, gestures, fetched, created, user, open, loading, editingId, editData,
                   editValidationErrors, harnessVars, otherVars>>

-----------------------------------------------------------------------------
(* People.tsx: inline edit *)

rowOf(t, id) == find({i \in 1..Len(people[t]) : people[t][i].id = id})

\* the Edit button of a row that is not being edited (disabled while submitting)
startEdit(t, i) ==
    /\ t \in open
    /\ "edit" \in gestures[t]
    /\ "linger" \in gestures[t] \/ quota[t] > 0
    /\ tableReachable(t)
    /\ ~loading[t]
    /\ ~submitting[t]
    /\ i \in 1..Len(people[t])
    /\ LET person == people[t][i]
           userDirection == getUserDirection(user[t])
       IN  /\ person.id # editingId[t]
           /\ ~(userDirection # "" /\ person.direction # userDirection)
           /\ editingId' = [editingId EXCEPT ![t] = person.id]
           /\ editData' = [editData EXCEPT ![t] = person]
           /\ editValidationErrors' = [editValidationErrors EXCEPT ![t] = NoErrors]
           /\ editTimer' = [editTimer EXCEPT ![t] =
                  editEffect(t, TRUE, person.id, person, people[t])]
    /\ quiet
    /\ UNCHANGED <<quota, gestures, fetched, sheet, created, user, open, loading, people, showModal, submitting,
                   formValues, addValidationErrors, addTimer, request, harnessVars, otherVars>>

\* the Cancel button of the row being edited (never disabled)
cancelEdit(t) ==
    /\ t \in open
    /\ tableReachable(t)
    /\ editingId[t] # NoId
    /\ editingId' = [editingId EXCEPT ![t] = NoId]
    /\ editData' = [editData EXCEPT ![t] = EmptyEdit]
    /\ editValidationErrors' = [editValidationErrors EXCEPT ![t] = NoErrors]
    /\ editTimer' = [editTimer EXCEPT ![t] =
           editEffect(t, TRUE, NoId, EmptyEdit, people[t])]
    /\ quiet
    /\ UNCHANGED <<quota, gestures, fetched, sheet, created, user, open, loading, people, showModal, submitting,
                   formValues, addValidationErrors, addTimer, request, harnessVars, otherVars>>

\* onChange of one of the four inputs of the edited row: the input shows
\* safeString(editData[field]) and `typed` is its new DOM value; the PAN and
\* voter-ID inputs pass typed.toUpperCase()
handleEditChange(t, field, typed) ==
    /\ t \in open
    /\ tableReachable(t)
    /\ editingId[t] # NoId
    /\ rowOf(t, editingId[t]) # 0
    /\ typed # safeString(editData[t][field])
    /\ LET value == IF field \in {"panNumber", "voterIdNumber"}
                    THEN Str(toUpperCase(typed)) ELSE Str(typed)
           edata == [editData[t] EXCEPT ![field] = value]
       IN  /\ editData' = [editData EXCEPT ![t] = edata]
           /\ editValidationErrors' =
                  [editValidationErrors EXCEPT ![t][field] = <<>>]
           /\ editTimer' = [editTimer EXCEPT ![t] =
                  editEffect(t, value # editData[t][field], editingId[t], edata, people[t])]
    /\ quiet
    /\ UNCHANGED <<quota, gestures, fetched, sheet, created, user, open, loading, people, showModal, submitting,
                   editingId, formValues, addValidationErrors, addTimer, request,
                   harnessVars, otherVars>>

\* the 800 ms timeout of the edit effect fires
editTimerFire(t) ==
    /\ t \in open
    /\ \E c \in editTimer[t] :
        /\ editValidationErrors' = [editValidationErrors EXCEPT ![t] =
               validateUniqueFields(c.data, c.people, c.excludeId)]
        /\ editTimer' = [editTimer EXCEPT ![t] = editTimer[t] \ {c}]
    /\ quiet
    /\ UNCHANGED <<quota, gestures, fetched, sheet, created, user, open, loading, people, showModal, submitting,
                   editingId, editData, formValues, addValidationErrors, addTimer,
                   request, harnessVars, otherVars>>

normalized(v) == IF Truthy(v) THEN Str(safeString(v)) ELSE Undefined

normalizedUpper(v) == IF Truthy(v) THEN Str(toUpperCase(safeString(v))) ELSE Undefined

normalizedData(edata) ==
    [id |-> edata.id,
     direction |-> edata.direction,
     panNumber |-> normalizedUpper(edata.panNumber),
     voterIdNumber |-> normalizedUpper(edata.voterIdNumber),
     name |-> normalized(edata.name),
     phone |-> normalized(edata.phone),
     aadharNumber |-> normalized(edata.aadharNumber)]

\* variant of mergePerson: the record of the roster stays as it was loaded
mergePersonKept(p, data) == p

\* { ...p, ...normalizedData, panNumber: ... || p.panNumber || '', ... }
mergePerson(p, data) ==
    [id |-> data.id,
     direction |-> data.direction,
     name |-> data.name,
     phone |-> data.phone,
     aadharNumber |-> data.aadharNumber,
     panNumber |-> OrElse(data.panNumber, OrElse(p.panNumber, EmptyString)),
     voterIdNumber |-> OrElse(data.voterIdNumber, OrElse(p.voterIdNumber, EmptyString))]

\* the Save button of the row being edited
updatePerson(t) ==
    /\ t \in open
    /\ tableReachable(t)
    /\ editingId[t] # NoId
    /\ rowOf(t, editingId[t]) # 0
    /\ ~editSaveDisabled(t)
    /\ ~submitting[t]
    /\ LET personId == editingId[t]
           errors == validateUniqueFields(editData[t], people[t], personId)
       IN  /\ hasErrors(errors) \/ quota[t] > 0
           /\ editValidationErrors' = [editValidationErrors EXCEPT ![t] = errors]
           /\ IF hasErrors(errors)
              THEN UNCHANGED <<submitting, request, quota>>
              ELSE /\ submitting' = [submitting EXCEPT ![t] = TRUE]
                   /\ quota' = [quota EXCEPT ![t] = quota[t] - 1]
                   /\ request' = [request EXCEPT ![t] =
                          [action |-> "UPDATE", id |-> personId,
                           data |-> normalizedData(editData[t])]]
    /\ quiet
    /\ UNCHANGED <<gestures, fetched, sheet, created, user, open, loading, people, showModal, editingId,
                   editData, formValues, addValidationErrors, addTimer, editTimer,
                   harnessVars, otherVars>>

\* the UPDATE request settles
updateResponse(t, outcome) ==
    /\ t \in open
    /\ request[t].action = "UPDATE"
    /\ request' = [request EXCEPT ![t] = NoRequest]
    /\ submitting' = [submitting EXCEPT ![t] = FALSE]
    /\ LET sheetsResult == sheetsServiceWrite(outcome)
       IN
       IF ~sheetsResult.throws /\ sheetsResult.success
       THEN LET personId == request[t].id
                data == request[t].data
                roster == [i \in 1..Len(people[t]) |->
                              IF people[t][i].id = personId
                              THEN mergePerson(people[t][i], data)
                              ELSE people[t][i]]
            IN  /\ shows(t, "updated")
                /\ sheet' = SheetUpdate(sheet, personId, data)
                /\ people' = [people EXCEPT ![t] = roster]
                /\ editingId' = [editingId EXCEPT ![t] = NoId]
                /\ editData' = [editData EXCEPT ![t] = EmptyEdit]
                /\ editValidationErrors' = [editValidationErrors EXCEPT ![t] = NoErrors]
                /\ addTimer' = [addTimer EXCEPT ![t] =
                       addEffect(t, TRUE, showModal[t], formValues[t], roster)]
                /\ editTimer' = [editTimer EXCEPT ![t] =
                       editEffect(t, TRUE, NoId, EmptyEdit, roster)]
       ELSE /\ shows(t, IF sheetsResult.throws THEN "updateError" ELSE "updateFailed")
            /\ UNCHANGED <<sheet, people, editingId, editData, editValidationErrors,
                        addTimer, editTimer>>
    /\ UNCHANGED <<quota, gestures, fetched, created, user, open, loading, showModal, formValues,
                   addValidationErrors, harnessVars, otherVars>>

-----------------------------------------------------------------------------
(* People.tsx: delete *)

\* variant of deletePerson: the answer to window.confirm is not looked at
deletePersonUnasked(t, i, confirmed) ==
    /\ t \in open
    /\ "delete" \in gestures[t]
    /\ tableReachable(t)
    /\ ~loading[t]
    /\ ~submitting[t]
    /\ i \in 1..Len(people[t])
    /\ people[t][i].id # editingId[t]
    /\ quota[t] > 0
    /\ shows(t, IF confirmed THEN "accepted" ELSE "declined")
    /\ quota' = [quota EXCEPT ![t] = quota[t] - 1]
    /\ submitting' = [submitting EXCEPT ![t] = TRUE]
    /\ request' = [request EXCEPT ![t] =
           [action |-> "DELETE", id |-> people[t][i].id, data |-> EmptyEdit]]
    /\ UNCHANGED <<gestures, fetched, sheet, created, user, open, loading, people, showModal, editingId,
                   editData, formValues, addValidationErrors, editValidationErrors,
                   addTimer, editTimer, harnessVars, otherVars>>

\* the Delete button of a row that is not being edited (disabled while
\* submitting), with the answer to window.confirm
deletePerson(t, i, confirmed) ==
    /\ t \in open
    /\ "delete" \in gestures[t]
    /\ tableReachable(t)
    /\ ~loading[t]
    /\ ~submitting[t]
    /\ i \in 1..Len(people[t])
    /\ people[t][i].id # editingId[t]
    /\ IF ~confirmed
       THEN /\ shows(t, "declined")
            /\ UNCHANGED <<quota, submitting, request>>
       ELSE /\ quota[t] > 0
            /\ shows(t, "accepted")
            /\ quota' = [quota EXCEPT ![t] = quota[t] - 1]
            /\ submitting' = [submitting EXCEPT ![t] = TRUE]
            /\ request' = [request EXCEPT ![t] =
                   [action |-> "DELETE", id |-> people[t][i].id, data |-> EmptyEdit]]
    /\ UNCHANGED <<gestures, fetched, sheet, created, user, open, loading, people, showModal, editingId,
                   editData, formValues, addValidationErrors, editValidationErrors,
                   addTimer, editTimer, harnessVars, otherVars>>

\* the DELETE request settles
deleteResponse(t, outcome) ==
    /\ t \in open
    /\ request[t].action = "DELETE"
    /\ request' = [request EXCEPT ![t] = NoRequest]
    /\ submitting' = [submitting EXCEPT ![t] = FALSE]
    /\ LET sheetsResult == sheetsServiceWrite(outcome)
       IN
       IF ~sheetsResult.throws /\ sheetsResult.success
       THEN LET personId == request[t].id
                roster == SelectSeq(people[t], LAMBDA p : p.id # personId)
            IN  /\ shows(t, "deleted")
                /\ sheet' = SheetDelete(sheet, personId)
                /\ people' = [people EXCEPT ![t] = roster]
                /\ addTimer' = [addTimer EXCEPT ![t] =
                       addEffect(t, TRUE, showModal[t], formValues[t], roster)]
                /\ editTimer' = [editTimer EXCEPT ![t] =
                       editEffect(t, TRUE, editingId[t], editData[t], roster)]
       ELSE /\ shows(t, IF sheetsResult.throws THEN "deleteError" ELSE "deleteFailed")
            /\ UNCHANGED <<sheet, people, addTimer, editTimer>>
    /\ UNCHANGED <<quota, gestures, fetched, created, user, open, loading, showModal, editingId, editData,
                   formValues, addValidationErrors, editValidationErrors, harnessVars, otherVars>>

-----------------------------------------------------------------------------
(* Specification of one page session *)

Next ==
    \E t \in Tabs :
        \/ \E outcome \in Outcomes : fetchData(t, outcome)
        \/ openModal(t)
        \/ closeModal(t)
        \/ \E f \in UniqueFields : \E v \in AddTyped(f) : addFormChange(t, f, v)
        \/ addTimerFire(t)
        \/ \E name \in Names : \E d \in FormDirections(user[t]) : onSubmit(t, name, d)
        \/ \E outcome \in Outcomes : createResponse(t, outcome)
        \/ \E i \in 1..Len(people[t]) : startEdit(t, i)
        \/ cancelEdit(t)
        \/ \E f \in UniqueFields : \E typed \in EditTyped(f) : handleEditChange(t, f, typed)
        \/ editTimerFire(t)
        \/ updatePerson(t)
        \/ \E outcome \in Outcomes : updateResponse(t, outcome)
        \/ \E i \in 1..Len(people[t]) : \E confirmed \in BOOLEAN : deletePerson(t, i, confirmed)
        \/ \E outcome \in Outcomes : deleteResponse(t, outcome)

Spec == Init /\ [][Next]_vars

-----------------------------------------------------------------------------
(* Validator harness: validateUniqueFields applied to drawn inputs *)

\* The validator of the earlier variant of the People page (part_003)

\* v === 'text' for a string literal
Is(v, text) == v.t = "string" /\ v.s = text

\* data.x && data.x !== "NA" && data.x.trim() !== "", for a string
checkedEarlier(v) == Truthy(v) /\ ~Is(v, <<"NA">>) /\ Trim(StringOf(v)) # <<>>

\* data.x.trim() and data.x.toUpperCase() are no functions of a number: a field
\* that holds a number other than 0 makes the validator throw
throwsEarlier(data) == \E f \in UniqueFields : data[f].t = "number" /\ Truthy(data[f])

exactDuplicateEarlier(field, data, roster, excludeId) ==
    find({i \in 1..Len(roster) :
            LET person == roster[i]
            IN  /\ person.id # excludeId
                /\ Trim(StringOf(person[field])) = Trim(StringOf(data[field]))
                /\ ~Is(person[field], <<"NA">>)
                /\ ~Is(person[field], <<>>)})

upperDuplicateEarlier(field, data, roster, excludeId) ==
    LET upper == Trim(toUpperCase(StringOf(data[field])))
    IN  find({i \in 1..Len(roster) :
            LET person == roster[i]
            IN  /\ person.id # excludeId
                /\ Trim(toUpperCase(StringOf(OrElse(person[field], EmptyString)))) = upper
                /\ ~Is(person[field], <<"NA">>)
                /\ ~Is(person[field], <<>>)})

duplicateEarlier(field, data, roster, excludeId) ==
    IF field \in {"panNumber", "voterIdNumber"}
    THEN upperDuplicateEarlier(field, data, roster, excludeId)
    ELSE exactDuplicateEarlier(field, data, roster, excludeId)

validateUniqueFieldsEarlier(data, roster, excludeId) ==
    IF throwsEarlier(data) THEN [throws |-> TRUE, errors |-> NoErrors]
    ELSE [throws |-> FALSE,
          errors |-> [f \in UniqueFields |->
              LET duplicate == duplicateEarlier(f, data, roster, excludeId)
              IN  IF checkedEarlier(data[f]) /\ duplicate # 0
                  THEN AlreadyRegistered(roster[duplicate])
                  ELSE <<>>]]

\* records of the roster the validator is run against
HarnessRoster == 2

HarnessIds == <<"h1", "h2", "h3", "h4">>

HarnessNames == <<"Asha", "Ravi", "Meena", "Kiran">>

\* values a field of the candidate or of a roster record can hold
HarnessValues ==
    {EmptyString, Undefined, Str(<<"NA">>), Str(<<" ">>), Str(<<"AB12">>),
     Str(<<"ab12">>), Str(<<" ", "AB12">>), Str(<<"77">>), Num("77")}

\* values of the fields next to the one under test
DecoyValues == {EmptyString, Str(<<"AB12">>)}

harnessPerson(i, field, value, other) ==
    [f \in PersonFields |->
        IF f = "id" THEN HarnessIds[i]
        ELSE IF f = "name" THEN Str(<<HarnessNames[i]>>)
        ELSE IF f = "direction" THEN "East"
        ELSE IF f = field THEN value
        ELSE other]

InitValidate ==
    /\ PageInit({}, [t \in Tabs |-> {}], {Superadmin}, {<<>>}, 0)
    /\ OthersIdle
    /\ sheet = <<>>
    /\ vErrors = NoErrors
    /\ vEarlier = [throws |-> FALSE, errors |-> NoErrors]
    /\ vRan = FALSE
    /\ vExcludeId \in {NoId} \cup {HarnessIds[i] : i \in 1..HarnessRoster}
    /\ \E field \in UniqueFields :
        /\ \E value \in HarnessValues, other \in DecoyValues :
            vData = [f \in UniqueFields |-> IF f = field THEN value ELSE other]
        /\ \E values \in [1..HarnessRoster -> HarnessValues], other \in DecoyValues :
            vPeople = [i \in 1..HarnessRoster |->
                          harnessPerson(i, field, values[i],
                                        IF i = 1 THEN other ELSE EmptyString)]

\* one run of validateUniqueFields on the drawn inputs
validate ==
    /\ ~vRan
    /\ vErrors' = validateUniqueFields(vData, vPeople, vExcludeId)
    /\ vEarlier' = validateUniqueFieldsEarlier(vData, vPeople, vExcludeId)
    /\ vRan' = TRUE
    /\ UNCHANGED <<sheet, created, quota, gestures, fetched, user, open, pageVars,
                   vData, vPeople, vExcludeId, otherVars>>

NextValidate == validate

SpecValidate == InitValidate /\ [][NextValidate]_vars

-----------------------------------------------------------------------------
(* Reading of a field value used to state the claims: a value is blank when  *)
(* it is undefined, '', 'NA' or consists of blanks only; otherwise its text  *)
(* is what lies between its first and its last non-blank glyph.              *)

IsBlank(v) ==
    \/ v.t = "undefined"
    \/ v.t = "string" /\ v.s = <<"NA">>
    \/ \A i \in 1..Len(v.s) : v.s[i] = " "

TextOf(v) ==
    LET inked == {i \in 1..Len(v.s) : v.s[i] # " "}
        first == CHOOSE i \in inked : \A j \in inked : i <= j
        last == CHOOSE i \in inked : \A j \in inked : j <= i
    IN  IF inked = {} THEN <<>> ELSE [k \in 1..(last - first + 1) |-> v.s[first + k - 1]]

\* PAN and voter ID are compared ignoring letter case, phone and Aadhaar exactly
SameValue(field, a, b) ==
    IF field \in {"panNumber", "voterIdNumber"}
    THEN toUpperCase(TextOf(a)) = toUpperCase(TextOf(b))
    ELSE TextOf(a) = TextOf(b)

\* record p holds, in `field`, a non-blank value equal to the non-blank value v
Collides(field, v, p) ==
    /\ ~IsBlank(v)
    /\ ~IsBlank(p[field])
    /\ SameValue(field, v, p[field])

\* positions of the roster records other than excludeId that collide with data
Colliders(field, data, roster, excludeId) ==
    {i \in 1..Len(roster) : roster[i].id # excludeId /\ Collides(field, data[field], roster[i])}

\* C2: validateUniqueFields reports an error for a field exactly when the
\* candidate's value is non-blank and a roster record other than the excluded
\* one holds an equal non-blank value in that field (PAN and voter ID ignoring
\* case, phone and Aadhaar exactly); the excluded record never collides.
C2_ErrorIffCollision ==
    vRan => \A f \in UniqueFields :
                (vErrors[f] # <<>>) <=> (Colliders(f, vData, vPeople, vExcludeId) # {})

\* the edited record holds the candidate's own phone, and no error is reported
C2_Witness ==
    /\ vRan
    /\ vExcludeId = HarnessIds[1]
    /\ Collides("phone", vData.phone, vPeople[1])
    /\ vErrors.phone = <<>>
    /\ \E f \in UniqueFields : vErrors[f] # <<>>

\* C10: a non-empty error of a field names the first record, in roster order,
\* that is not the excluded one and collides with the candidate in that field.
C10_ErrorNamesFirstCollider ==
    vRan => \A f \in UniqueFields :
                vErrors[f] # <<>> =>
                    LET hits == Colliders(f, vData, vPeople, vExcludeId)
                    IN  /\ hits # {}
                        /\ \E i \in hits :
                            /\ \A j \in hits : i <= j
                            /\ vErrors[f] = <<"Already registered for ">> \o vPeople[i].name.s

\* two records collide on the PAN and the error names the first
C10_Witness ==
    /\ vRan
    /\ Cardinality(Colliders("panNumber", vData, vPeople, vExcludeId)) >= 2
    /\ vErrors.panNumber = <<"Already registered for ", HarnessNames[1]>>

-----------------------------------------------------------------------------
(* Uniqueness of the roster within one session *)

\* no two distinct records of the roster share a non-blank phone, Aadhaar, PAN
\* or voter id
NoSharedValues(roster) ==
    \A i, j \in 1..Len(roster) :
        i # j => \A f \in UniqueFields : ~Collides(f, roster[i][f], roster[j])

\* the records of the roster that carry the given id
WithId(roster, id) == {i \in 1..Len(roster) : roster[i].id = id}

-----------------------------------------------------------------------------
(* Validation before a write *)

\* the values a tab submits with the request it sends in this step
Submitted(t) ==
    IF request'[t].action = "CREATE" THEN formValues[t] ELSE editData[t]

\* the record a submission is not compared with: the one being edited
Excluded(t) ==
    IF request'[t].action = "CREATE" THEN NoId ELSE editingId[t]

\* the tab sends a CREATE or an UPDATE request in this step
SendsWrite(t) ==
    request[t].action = "none" /\ request'[t].action \in {"CREATE", "UPDATE"}

\* the add form is submitted in this step
SubmitsAdd(t) ==
    \E name \in Names, formDirection \in Directions \cup {""} :
        onSubmit(t, name, formDirection)

\* C3: a CREATE or UPDATE request is sent only by a handler run in which none of
\* the submitted phone, Aadhaar, PAN and voter id collides with another record
\* of the roster; a submission with a collision sends no request and changes
\* neither the roster nor the sheet
C3_WriteOnlyAfterValidation ==
    [][\A t \in Tabs :
         /\ SendsWrite(t) =>
               \A f \in UniqueFields :
                   Colliders(f, Submitted(t), people[t], Excluded(t)) = {}
         /\ (/\ SubmitsAdd(t)
             /\ \E f \in UniqueFields :
                    Colliders(f, formValues[t], people[t], NoId) # {})
               => request' = request /\ people' = people /\ sheet' = sheet
         /\ (/\ updatePerson(t)
             /\ \E f \in UniqueFields :
                    Colliders(f, editData[t], people[t], editingId[t]) # {})
               => request' = request /\ people' = people /\ sheet' = sheet]_vars

\* an UPDATE carrying a changed phone is in flight for a row whose values were
\* checked against a roster of several records
C3_Witness ==
    /\ request["tab1"].action = "UPDATE"
    /\ Len(people["tab1"]) >= 2
    /\ \E i \in WithId(people["tab1"], request["tab1"].id) :
           request["tab1"].data.phone # people["tab1"][i].phone

\* C4: the add form is submitted, and an inline edit is saved, only while no
\* uniqueness error is displayed for that mode
C4_NoSubmitWhileErrorsShown ==
    [][\A t \in Tabs :
         /\ SubmitsAdd(t) => \A f \in UniqueFields : addValidationErrors[t][f] = <<>>
         /\ updatePerson(t) => \A f \in UniqueFields : editValidationErrors[t][f] = <<>>]_vars

\* the add form is open, complete and showing an error while the row being
\* edited shows one too
C4_Witness ==
    /\ showModal["tab1"]
    /\ ~submitting["tab1"]
    /\ \A f \in UniqueFields : PatternOK(f, formValues["tab1"][f])
    /\ addValidationErrors["tab1"].panNumber # <<>>
    /\ editingId["tab1"] # NoId
    /\ editValidationErrors["tab1"].phone # <<>>
-----------------------------------------------------------------------------
(* Direction scoping *)

\* the tab's user is an admin with a direction
Scoped(t) == t \in open /\ user[t].role = "admin" /\ user[t].direction # ""

\* the directions that occur in a roster
DirectionsOf(roster) == {roster[i].direction : i \in 1..Len(roster)}

\* the rows of the sheet that were created through the page
CreatedRows == {i \in 1..Len(sheet) : \E k \in 1..Len(FreshIds) : sheet[i].id = FreshIds[k]}

\* C5: for an admin with direction d the roster holds only records of direction
\* d and every person that admin creates is sent and stored with direction d,
\* whatever the form carried; for a superadmin a successful load makes the
\* roster the whole converted sheet
C5_DirectionScope ==
    /\ [](\A t \in Tabs : Scoped(t) =>
            /\ DirectionsOf(people[t]) \subseteq {user[t].direction}
            /\ request[t].action = "CREATE" =>
                   request[t].data.direction = user[t].direction
            /\ \A i \in CreatedRows : sheet[i].direction = user[t].direction)
    /\ [][\A t \in Tabs :
            (fetchData(t, "ok") /\ user[t].role = "superadmin")
                => people'[t] = convertToPeople(sheet)]_vars

\* an East admin's roster holds Asha and a person the admin created, who is in
\* the sheet next to Ravi of direction West
C5_Witness ==
    /\ Scoped("tab1")
    /\ WithId(people["tab1"], FreshIds[1]) # {}
    /\ WithId(people["tab1"], Asha.id) # {}
    /\ CreatedRows # {}
    /\ \E i \in 1..Len(sheet) : sheet[i].direction # user["tab1"].direction

\* C6: an admin, with or without a direction, never has records of two
\* directions in the roster
C6_AdminSeesOneDirection ==
    \A t \in Tabs :
        (t \in open /\ user[t].role = "admin") => Cardinality(DirectionsOf(people[t])) <= 1

\* C7: the CREATE and UPDATE requests of an admin with a direction carry no
\* phone, Aadhaar, PAN or voter id that collides with any other row of the
\* sheet, rows of other directions included
C7_ScopedWriteUniqueInSheet ==
    [][\A t \in Tabs :
         (Scoped(t) /\ SendsWrite(t)) =>
             \A f \in UniqueFields :
                 Colliders(f, Submitted(t), sheet, Excluded(t)) = {}]_vars
-----------------------------------------------------------------------------
(* Two sessions on one sheet *)

\* each of the two tabs sends at most this many write requests
MaxTabWrites == 1

\* one user edits and deletes rows while the other adds people
TabGestures == [t \in Tabs |-> IF t = "tab1" THEN {"edit", "delete"} ELSE {"add"}]

InitTabs ==
    /\ PageInit(Tabs, TabGestures, {Superadmin}, {<<Asha>>, <<Asha, Ravi>>}, MaxTabWrites)
    /\ HarnessIdle
    /\ OthersIdle

SpecTabs == InitTabs /\ [][Next]_vars

-----------------------------------------------------------------------------
(* Debounced validation *)

\* the errors shown for a mode are exactly the collisions of its values
ErrorsExact(errors, values, roster, excludeId) ==
    \A f \in UniqueFields :
        (errors[f] # <<>>) <=> (Colliders(f, values, roster, excludeId) # {})

\* C9: while the add form is open or a row is being edited, at most one
\* debounced validation is pending per mode, and once none is pending the
\* uniqueness errors displayed for the mode are exactly the collisions of its
\* current field values with the roster
C9_ErrorsExactOnceIdle ==
    \A t \in Tabs :
        /\ Cardinality(addTimer[t]) <= 1
        /\ Cardinality(editTimer[t]) <= 1
        /\ (showModal[t] /\ addTimer[t] = {}) =>
               ErrorsExact(addValidationErrors[t], formValues[t], people[t], NoId)
        /\ (editingId[t] # NoId /\ editTimer[t] = {}) =>
               ErrorsExact(editValidationErrors[t], editData[t], people[t], editingId[t])
-----------------------------------------------------------------------------
(* googleSheets.ts: jsonpRequest *)

\* the People page closed, the validator harness idle
PeopleIdle ==
    /\ PageInit({}, [t \in Tabs |-> {}], {Superadmin}, {<<>>}, 0)
    /\ HarnessIdle

\* resolve(data) / reject(error): only the first call settles the promise
settle(r, how, with) ==
    IF promise[r] = "pending"
    THEN /\ promise' = [promise EXCEPT ![r] = how]
         /\ settledWith' = [settledWith EXCEPT ![r] = with]
    ELSE UNCHANGED <<promise, settledWith>>

\* cleanup() of request r: remove its script tag, delete window[callbackName]
cleanup(r) ==
    /\ inHead' = [inHead EXCEPT ![r] = FALSE]
    /\ window' = [window EXCEPT ![callbackName[r]] = "none"]

\* new Promise(...): register the callback, append the script, arm the timeout
jsonpRequest(r, name) ==
    /\ promise[r] = "none"
    /\ callbackName' = [callbackName EXCEPT ![r] = name]
    /\ window' = [window EXCEPT ![name] = r]
    /\ inHead' = [inHead EXCEPT ![r] = TRUE]
    /\ script' = [script EXCEPT ![r] = "fetching"]
    /\ promise' = [promise EXCEPT ![r] = "pending"]
    /\ overallTimer' = [overallTimer EXCEPT ![r] = TRUE]
    /\ UNCHANGED <<settledWith, postLoadTimer, peopleVars, appVars>>

\* the fetched script runs: callbackName(data of r), whoever is registered there
scriptRuns(r) ==
    /\ script[r] = "fetching"
    /\ script' = [script EXCEPT ![r] = "ran"]
    /\ LET q == window[callbackName[r]]
       IN  IF q = "none"
           THEN UNCHANGED <<window, inHead, promise, settledWith>>
           ELSE cleanup(q) /\ settle(q, "resolved", r)
    /\ UNCHANGED <<callbackName, postLoadTimer, overallTimer, peopleVars, appVars>>

\* script.onload, after the script ran or for a body that calls nothing
onload(r) ==
    /\ script[r] \in {"fetching", "ran"}
    /\ script' = [script EXCEPT ![r] = "loaded"]
    /\ postLoadTimer' = [postLoadTimer EXCEPT ![r] = TRUE]
    /\ UNCHANGED <<callbackName, window, inHead, promise, settledWith, overallTimer,
                   peopleVars, appVars>>

\* script.onerror
onerror(r) ==
    /\ script[r] = "fetching"
    /\ script' = [script EXCEPT ![r] = "failed"]
    /\ cleanup(r)
    /\ settle(r, "rejected", "Failed to connect")
    /\ UNCHANGED <<callbackName, postLoadTimer, overallTimer, peopleVars, appVars>>

\* the timeout armed by onload
postLoadTimeout(r) ==
    /\ postLoadTimer[r]
    /\ postLoadTimer' = [postLoadTimer EXCEPT ![r] = FALSE]
    /\ IF window[callbackName[r]] # "none"
       THEN cleanup(r) /\ settle(r, "rejected", "did not respond properly")
       ELSE UNCHANGED <<window, inHead, promise, settledWith>>
    /\ UNCHANGED <<callbackName, script, overallTimer, peopleVars, appVars>>

\* the overall timeout
overallTimeout(r) ==
    /\ overallTimer[r]
    /\ overallTimer' = [overallTimer EXCEPT ![r] = FALSE]
    /\ IF window[callbackName[r]] # "none"
       THEN cleanup(r) /\ settle(r, "rejected", "Request timeout")
       ELSE UNCHANGED <<window, inHead, promise, settledWith>>
    /\ UNCHANGED <<callbackName, script, postLoadTimer, peopleVars, appVars>>

InitJsonp == PeopleIdle /\ JsonpIdle /\ AppIdle /\ DashboardIdle /\ RegisterIdle

NextJsonp ==
    \E r \in Requests :
        \/ \E name \in CallbackNames : jsonpRequest(r, name)
        \/ scriptRuns(r)
        \/ onload(r)
        \/ onerror(r)
        \/ postLoadTimeout(r)
        \/ overallTimeout(r)

SpecJsonp == InitJsonp /\ [][NextJsonp]_vars

\* the promise of a request has settled
Settled(r) == promise[r] \in {"resolved", "rejected"}

\* C11: every JSONP request settles, at the latest when its overall timeout
\* fires (a failed script load has rejected it before); it resolves only with a
\* response and rejects only with one of the three errors; once it has settled
\* its script tag is out of the document, its callback is no longer registered
\* and nothing changes its outcome
C11_EveryRequestSettlesOnce ==
    /\ [](\A r \in Requests :
            /\ (promise[r] # "none" /\ ~overallTimer[r]) => Settled(r)
            /\ script[r] = "failed" => Settled(r)
            /\ promise[r] = "resolved" => settledWith[r] \in Requests
            /\ promise[r] = "rejected" =>
                   settledWith[r] \in {"Failed to connect", "did not respond properly",
                                       "Request timeout"}
            /\ Settled(r) => ~inHead[r] /\ window[callbackName[r]] # r)
    /\ [][\A r \in Requests :
            Settled(r) => promise'[r] = promise[r] /\ settledWith'[r] = settledWith[r]]_vars

-----------------------------------------------------------------------------
(* Failure handling of the People page *)

\* C12: getPeople never throws and never answers success = false; a People read
\* that fails in any way is answered with success and no rows, and the page
\* that was loading ends with an empty roster, loading = false and no alert
C12_FailedReadIsEmptyRoster ==
    /\ [](\A outcome \in Outcomes :
            LET response == getPeople(outcome)
            IN  /\ ~response.throws
                /\ response.success
                /\ outcome # "ok" => response.data = <<>>)
    /\ [][\A t \in Tabs :
            (fetched[t] = "pending" /\ fetched'[t] = "failed") =>
                people'[t] = <<>> /\ ~loading'[t] /\ dialog'[t] = "none"]_vars

\* a page whose read of a sheet with rows failed shows an empty roster
C12_Witness ==
    \E t \in Tabs :
        /\ fetched[t] = "failed"
        /\ sheet # <<>>
        /\ people[t] = <<>>
        /\ ~loading[t]

\* a step in which a People write of page t ends in failure
WriteFails(t) ==
    \E outcome \in Outcomes \ {"ok"} :
        \/ createResponse(t, outcome)
        \/ updateResponse(t, outcome)
        \/ deleteResponse(t, outcome)

FailureAlerts ==
    [CREATE |-> {"createFailed", "createError"},
     UPDATE |-> {"updateFailed", "updateError"},
     DELETE |-> {"deleteFailed", "deleteError"}]

\* C13: when a People create, update or delete request fails, the roster (and
\* the sheet) is unchanged, the user is alerted of the failure, the add modal
\* and the edited row are as they were, with their entered values, and
\* submitting is false again
C13_FailedWriteKeepsEverything ==
    [][\A t \in Tabs :
        WriteFails(t) =>
            /\ people'[t] = people[t]
            /\ sheet' = sheet
            /\ dialog'[t] \in FailureAlerts[request[t].action]
            /\ showModal'[t] = showModal[t]
            /\ formValues'[t] = formValues[t]
            /\ addValidationErrors'[t] = addValidationErrors[t]
            /\ editingId'[t] = editingId[t]
            /\ editData'[t] = editData[t]
            /\ editValidationErrors'[t] = editValidationErrors[t]
            /\ ~submitting'[t]]_vars

\* a failed create has been reported and the add modal is still open with the
\* values that were submitted
C13_Witness ==
    \E t \in Tabs :
        /\ dialog[t] = "createFailed"
        /\ showModal[t]
        /\ formValues[t] # BlankForm
        /\ people[t] # <<>>
        /\ ~submitting[t]

-----------------------------------------------------------------------------
(* The application: AuthProvider, router, Messages page, Templates page *)

MaxSends == 1

MaxDeletes == 1

ProtectedPages == {"dashboard", "messages", "templates"}

\* localStorage.setItem / removeItem
setItemLost(storage, key, value) == storage

setItem(storage, key, value) == [storage EXCEPT ![key] = value]

removeItem(storage, key) == [storage EXCEPT ![key] = "none"]

\* Messages.getAuthToken: the first of possibleKeys that holds something
getAuthToken(storage) ==
    LET hits == {i \in 1..Len(possibleKeys) : storage[possibleKeys[i]] # "none"}
    IN  IF hits = {} THEN "none" ELSE storage[possibleKeys[find(hits)]]

\* typeHelpers.convertToMessages / convertToTemplates, on the fields modelled
convertToMessages(rawData) ==
    [index \in 1..Len(rawData) |->
        [id |-> rawData[index].id, direction |-> rawData[index].direction]]

convertToTemplates(rawData) ==
    [index \in 1..Len(rawData) |->
        [id |-> rawData[index].id, title |-> rawData[index].title]]

\* Apps Script DELETE on the Templates sheet
TemplateSheetDelete(rows, id) == SelectSeq(rows, LAMBDA row : row.id # id)

\* no request of a page is in flight
PagesSettled ==
    /\ msgCall = "none"
    /\ \A k \in ReadNames : msgReads[k].state # "pending"
    /\ tplCall = "none"

\* a page that is not shown holds no state
unmountMessages ==
    /\ msgMessages' = <<>>
    /\ msgPeople' = <<>>
    /\ msgTemplates' = <<>>
    /\ msgSending' = FALSE
    /\ msgShowModal' = FALSE
    /\ msgSelectedPeople' = {}
    /\ msgPath' = "none"
    /\ msgBearer' = "none"

unmountTemplates ==
    /\ tplTemplates' = <<>>
    /\ tplLoading' = TRUE
    /\ tplDeleteLoading' = "null"
    /\ tplDeleteOutcome' = "none"

\* the state of the application when the browser opens it: storage may hold the
\* token of an earlier session and entries this program did not write;
\* initializeAuth has read the token and, if there is one, awaits its verification
InitApp ==
    /\ PageInit({}, [t \in Tabs |-> {}], {Superadmin}, {<<Asha, Ravi>>}, 0)
    /\ HarnessIdle
    /\ JsonpIdle
    /\ DashboardIdle
    /\ RegisterIdle
    /\ route = "login"
    /\ alerts = <<>>
    /\ \E session \in {"none", "east@portal"}, foreign \in {"none", "foreign_token"} :
          /\ localStorage =
                 [EmptyStorage EXCEPT
                     !["auth_token"] = IF session = "none" THEN "none" ELSE TokenOf(session),
                     !["auth_user"] = session,
                     !["token"] = foreign]
          /\ authVerify = localStorage["auth_token"]
    /\ authUser = NoUser
    /\ authLoading = (authVerify # "none")
    /\ authError = "null"
    /\ authLogin = "none"
    /\ msgSheet = <<[id |-> "m1", direction |-> "West"], [id |-> "m2", direction |-> ""]>>
    /\ msgQuota = MaxSends
    /\ MessagesUnmounted
    /\ tplSheet = <<Welcome, Reminder>>
    /\ tplQuota = MaxDeletes
    /\ TemplatesUnmounted

\* the answers of the auth backend
AuthAnswers == {"ok", "rejected", "networkError"}

\* initializeAuth: the verification of the stored token is answered
initializeAuth(answer) ==
    /\ authVerify # "none"
    /\ authVerify' = "none"
    /\ IF answer = "ok"
       THEN /\ authUser' = UserOf(OwnerOf(authVerify))
            /\ UNCHANGED localStorage
       ELSE /\ localStorage' = removeItem(removeItem(localStorage, "auth_token"), "auth_user")
            /\ UNCHANGED authUser
    /\ authLoading' = FALSE
    /\ alerts' = <<>>
    /\ UNCHANGED <<route, authError, authLogin, msgVars, tplVars, peopleVars, jsonpVars>>

\* login(email, password), up to the fetch
login(email) ==
    /\ route = "login"
    /\ authLogin = "none"
    /\ authLoading' = TRUE
    /\ authError' = "null"
    /\ authLogin' = email
    /\ alerts' = <<>>
    /\ UNCHANGED <<route, localStorage, authUser, authVerify, msgVars, tplVars, peopleVars,
                   jsonpVars>>

\* login after the fetch, and Login.handleSubmit going to the dashboard
loginResponse(answer) ==
    /\ authLogin # "none"
    /\ authLogin' = "none"
    /\ IF answer = "ok"
       THEN /\ localStorage' = setItem(setItem(localStorage, "auth_token", TokenOf(authLogin)),
                                        "auth_user", authLogin)
            /\ authUser' = UserOf(authLogin)
            /\ route' = "dashboard"
            /\ UNCHANGED authError
       ELSE /\ authError' = IF answer = "rejected" THEN "Login failed" ELSE "Network error"
            /\ UNCHANGED <<localStorage, authUser, route>>
    /\ authLoading' = FALSE
    /\ alerts' = <<>>
    /\ UNCHANGED <<authVerify, msgVars, tplVars, peopleVars, jsonpVars>>

\* the Logout button of the sidebar; a protected page without a user is left
\* for the login page
logout ==
    /\ route \in ProtectedPages
    /\ authUser # NoUser
    /\ PagesSettled
    /\ localStorage' = removeItem(removeItem(localStorage, "auth_token"), "auth_user")
    /\ authUser' = NoUser
    /\ authError' = "null"
    /\ route' = "login"
    /\ unmountMessages
    /\ msgLoading' = TRUE
    /\ unmountTemplates
    /\ alerts' = <<>>
    /\ UNCHANGED <<authLoading, authVerify, authLogin, msgSheet, msgReads, msgCall, msgQuota,
                   tplSheet, tplCall, tplQuota, peopleCore, regVars, jsonpVars>>

\* a link of the sidebar or the address bar: the page left is unmounted, the
\* page entered is mounted and its effect starts its load
navigate(page) ==
    /\ page # route
    /\ page \in ProtectedPages => authUser # NoUser
    /\ authLogin = "none"
    /\ PagesSettled
    /\ route' = page
    /\ unmountMessages
    /\ msgLoading' = TRUE
    /\ msgReads' = [k \in ReadNames |->
                       IF page = "messages" THEN [state |-> "pending", data |-> <<>>]
                       ELSE NoRead]
    /\ msgCall' = IF page = "messages" THEN "fetch" ELSE "none"
    /\ unmountTemplates
    /\ tplCall' = IF page = "templates" THEN "getTemplates" ELSE "none"
    /\ alerts' = <<>>
    /\ UNCHANGED <<authVars, msgSheet, msgQuota, tplSheet, tplQuota, peopleCore, regVars, jsonpVars>>

-----------------------------------------------------------------------------
(* Templates page *)

\* fetchTemplates settles: on mount, or as the second await of
\* handleDeleteTemplate, which then reports the deletion
fetchTemplatesResponse(outcome) ==
    /\ route = "templates"
    /\ tplCall \in {"getTemplates", "getTemplatesAfterDelete"}
    /\ LET response == makeRequest(outcome, tplSheet)
           fetchAlerts == IF response.throws THEN <<"Failed to fetch templates">> ELSE <<>>
       IN  /\ tplTemplates' = IF response.throws THEN tplTemplates
                              ELSE convertToTemplates(response.data)
           /\ alerts' = IF tplCall = "getTemplatesAfterDelete"
                        THEN fetchAlerts \o <<"Template deleted successfully!">>
                        ELSE fetchAlerts
    /\ tplLoading' = FALSE
    /\ tplDeleteLoading' = "null"
    /\ tplCall' = "none"
    /\ UNCHANGED <<route, authVars, msgVars, tplSheet, tplDeleteOutcome, tplQuota, peopleVars,
                   jsonpVars>>

\* the Delete button of a template card, with the answer to window.confirm; the
\* user deletes one template at a time
handleDeleteTemplate(i, confirmed) ==
    /\ route = "templates"
    /\ ~tplLoading
    /\ tplCall = "none"
    /\ i \in 1..Len(tplTemplates)
    /\ IF ~confirmed
       THEN UNCHANGED <<tplDeleteLoading, tplCall, tplQuota, tplDeleteOutcome>>
       ELSE /\ tplQuota > 0
            /\ tplQuota' = tplQuota - 1
            /\ tplDeleteLoading' = tplTemplates[i].id
            /\ tplCall' = "deleteTemplate"
            /\ tplDeleteOutcome' = "none"
    /\ alerts' = <<>>
    /\ UNCHANGED <<route, authVars, msgVars, tplSheet, tplTemplates, tplLoading, peopleVars,
                   jsonpVars>>

\* sheetsService.deleteTemplate settles; its result is not looked at and
\* fetchTemplates is called
deleteTemplateResponse(outcome) ==
    /\ route = "templates"
    /\ tplCall = "deleteTemplate"
    /\ LET result == sheetsServiceWrite(outcome)
       IN  /\ tplSheet' = IF outcome = "ok" THEN TemplateSheetDelete(tplSheet, tplDeleteLoading)
                          ELSE tplSheet
           /\ tplDeleteOutcome' = IF ~result.throws /\ result.success THEN "ok" ELSE "failed"
    /\ tplLoading' = TRUE
    /\ tplCall' = "getTemplatesAfterDelete"
    /\ alerts' = <<>>
    /\ UNCHANGED <<route, authVars, msgVars, tplTemplates, tplDeleteLoading, tplQuota,
                   peopleVars, jsonpVars>>

-----------------------------------------------------------------------------
(* Messages page *)

\* variant of readResponse: a failed read of any sheet is answered with no rows
readResponseSwallowed(k, outcome) ==
    IF outcome = "ok"
    THEN makeRequest(outcome, IF k = "people" THEN sheet
                              ELSE IF k = "messages" THEN msgSheet ELSE tplSheet)
    ELSE Returned([success |-> TRUE, data |-> <<>>])

\* getMessages() / getPeople() / getTemplates()
readResponse(k, outcome) ==
    IF k = "people" THEN getPeople(outcome)
    ELSE IF k = "messages" THEN makeRequest(outcome, msgSheet)
    ELSE makeRequest(outcome, tplSheet)

\* the alert onSubmit ends with, by the branch it took
sentAlert(path) ==
    IF path = "noToken" THEN "Message sent to Google Sheets successfully! (Database save skipped)"
    ELSE IF path = "unauthorized" THEN "Message saved to Google Sheets! (Database save failed)"
    ELSE "Message sent successfully to both database and Google Sheets!"

\* one of the three reads of fetchData settles; Promise.all is rejected by the
\* first read that throws and fulfilled by the last of three that succeed, and
\* fetchData goes on from there, followed by the rest of onSubmit if that called it
readSettles(k, outcome) ==
    /\ route = "messages"
    /\ msgReads[k].state = "pending"
    /\ LET response == readResponse(k, outcome)
           reads == [msgReads EXCEPT ![k] =
                        [state |-> IF response.throws THEN "failed" ELSE "ok",
                         data |-> IF msgCall \in {"fetch", "refetch"} THEN response.data
                                  ELSE <<>>]]
           awaited == msgCall \in {"fetch", "refetch"}
           rejected == awaited /\ response.throws
           fulfilled == awaited /\ \A n \in ReadNames : reads[n].state = "ok"
           after == IF msgCall = "refetch" THEN <<sentAlert(msgPath)>> ELSE <<>>
           filtering == authUser.role = "admin" /\ authUser.direction # ""
           allMessages == convertToMessages(reads["messages"].data)
           allPeople == convertToPeople(reads["people"].data)
       IN  /\ msgReads' = IF fulfilled \/ rejected
                          THEN [n \in ReadNames |-> [reads[n] EXCEPT !.data = <<>>]]
                          ELSE reads
           /\ IF fulfilled
              THEN /\ msgMessages' =
                          IF filtering
                          THEN SelectSeq(allMessages, LAMBDA msg :
                                   msg.direction = authUser.direction \/ msg.direction = "")
                          ELSE allMessages
                   /\ msgPeople' =
                          IF filtering
                          THEN SelectSeq(allPeople, LAMBDA person :
                                   person.direction = authUser.direction)
                          ELSE allPeople
                   /\ msgTemplates' = convertToTemplates(reads["templates"].data)
                   /\ alerts' = after
              ELSE /\ UNCHANGED <<msgMessages, msgPeople, msgTemplates>>
                   /\ alerts' = IF rejected THEN <<"Failed to fetch data">> \o after ELSE <<>>
           /\ IF fulfilled \/ rejected
              THEN /\ msgLoading' = FALSE
                   /\ msgSending' = FALSE
                   /\ msgCall' = "none"
                   /\ msgPath' = "none"
                   /\ msgBearer' = "none"
              ELSE UNCHANGED <<msgLoading, msgSending, msgCall, msgPath, msgBearer>>
    /\ UNCHANGED <<route, authVars, msgSheet, msgShowModal, msgQuota, tplVars, peopleVars,
                   jsonpVars>>

\* the "Send Message" button
msgOpenModal ==
    /\ route = "messages"
    /\ ~msgLoading
    /\ ~msgShowModal
    /\ msgShowModal' = TRUE
    /\ alerts' = <<>>
    /\ UNCHANGED <<route, authVars, msgSheet, msgMessages, msgPeople, msgTemplates, msgLoading,
                   msgSending, msgReads, msgCall, msgPath, msgBearer, msgQuota, tplVars,
                   peopleVars, jsonpVars>>

\* the X and Cancel buttons of the form (disabled while sending)
msgCloseModal ==
    /\ route = "messages"
    /\ ~msgLoading
    /\ msgShowModal
    /\ ~msgSending
    /\ msgShowModal' = FALSE
    /\ alerts' = <<>>
    /\ UNCHANGED <<route, authVars, msgSheet, msgMessages, msgPeople, msgTemplates, msgLoading,
                   msgSending, msgReads, msgCall, msgPath, msgBearer, msgQuota, tplVars,
                   peopleVars, jsonpVars>>

\* person.id || person.name: convertToPeople gives every person an id
recipientKey(person) == person.id

\* the checkbox of one person of the form (disabled while sending)
togglePersonSelection(i) ==
    /\ route = "messages"
    /\ ~msgLoading
    /\ msgShowModal
    /\ ~msgSending
    /\ i \in 1..Len(msgPeople)
    /\ LET personId == recipientKey(msgPeople[i])
       IN  msgSelectedPeople' = IF personId \in msgSelectedPeople
                                THEN msgSelectedPeople \ {personId}
                                ELSE msgSelectedPeople \cup {personId}
    /\ alerts' = <<>>
    /\ UNCHANGED <<route, authVars, msgVars, tplVars, peopleCore, regVars, jsonpVars>>

\* onSubmit of the message form, up to its first await
msgOnSubmit ==
    /\ route = "messages"
    /\ ~msgLoading
    /\ msgShowModal
    /\ msgSelectedPeople # {}
    /\ ~msgSending
    /\ msgQuota > 0
    /\ \A k \in ReadNames : msgReads[k].state # "pending"
    /\ msgQuota' = msgQuota - 1
    /\ msgSending' = TRUE
    /\ LET authToken == getAuthToken(localStorage)
       IN  IF authToken = "none"
           THEN /\ msgCall' = "createMessage"
                /\ msgPath' = "noToken"
                /\ UNCHANGED msgBearer
           ELSE /\ msgCall' = "post"
                /\ msgBearer' = authToken
                /\ UNCHANGED msgPath
    /\ alerts' = <<>>
    /\ UNCHANGED <<route, authVars, msgSheet, msgMessages, msgPeople, msgTemplates, msgLoading,
                   msgShowModal, msgReads, tplVars, peopleVars, jsonpVars>>

\* the POST to /api/messages is answered
postResponse(status) ==
    /\ route = "messages"
    /\ msgCall = "post"
    /\ IF status = "error"
       THEN /\ alerts' = <<"Failed to send message">>
            /\ msgSending' = FALSE
            /\ msgCall' = "none"
            /\ msgBearer' = "none"
            /\ UNCHANGED msgPath
       ELSE /\ alerts' = <<>>
            /\ msgCall' = "createMessage"
            /\ msgPath' = IF status = "ok" THEN "both" ELSE "unauthorized"
            /\ UNCHANGED <<msgSending, msgBearer>>
    /\ UNCHANGED <<route, authVars, msgSheet, msgMessages, msgPeople, msgTemplates, msgLoading,
                   msgShowModal, msgReads, msgQuota, tplVars, peopleVars, jsonpVars>>

\* variant of createMessageResponse: the form is also closed when the write failed
createMessageResponseCloses(outcome) ==
    /\ route = "messages"
    /\ msgCall = "createMessage"
    /\ LET response == makeRequest(outcome, <<>>)
       IN  IF response.throws
           THEN /\ alerts' = <<"Failed to send message">>
                /\ msgSending' = FALSE
                /\ msgCall' = "none"
                /\ msgPath' = "none"
                /\ msgBearer' = "none"
                /\ msgShowModal' = FALSE
                /\ msgSelectedPeople' = {}
                /\ UNCHANGED <<msgSheet, msgLoading, msgReads>>
           ELSE /\ alerts' = <<>>
                /\ msgSheet' = Append(msgSheet,
                       [id |-> MessageIds[MaxSends - msgQuota],
                        direction |-> IF authUser.direction # "" THEN authUser.direction
                                      ELSE "All"])
                /\ msgShowModal' = FALSE
                /\ msgSelectedPeople' = {}
                /\ msgLoading' = TRUE
                /\ msgReads' = [k \in ReadNames |-> [state |-> "pending", data |-> <<>>]]
                /\ msgCall' = "refetch"
                /\ UNCHANGED <<msgSending, msgPath, msgBearer>>
    /\ UNCHANGED <<route, authVars, msgMessages, msgPeople, msgTemplates, msgQuota, tplVars,
                   peopleCore, regVars, jsonpVars>>

\* sheetsService.createMessage settles; after a success the form is closed and
\* fetchData is called
createMessageResponse(outcome) ==
    /\ route = "messages"
    /\ msgCall = "createMessage"
    /\ LET response == makeRequest(outcome, <<>>)
       IN  IF response.throws
           THEN /\ alerts' = <<"Failed to send message">>
                /\ msgSending' = FALSE
                /\ msgCall' = "none"
                /\ msgPath' = "none"
                /\ msgBearer' = "none"
                /\ UNCHANGED <<msgSheet, msgShowModal, msgSelectedPeople, msgLoading, msgReads>>
           ELSE /\ alerts' = <<>>
                /\ msgSheet' = Append(msgSheet,
                       [id |-> MessageIds[MaxSends - msgQuota],
                        direction |-> IF authUser.direction # "" THEN authUser.direction
                                      ELSE "All"])
                /\ msgShowModal' = FALSE
                /\ msgSelectedPeople' = {}
                /\ msgLoading' = TRUE
                /\ msgReads' = [k \in ReadNames |-> [state |-> "pending", data |-> <<>>]]
                /\ msgCall' = "refetch"
                /\ UNCHANGED <<msgSending, msgPath, msgBearer>>
    /\ UNCHANGED <<route, authVars, msgMessages, msgPeople, msgTemplates, msgQuota, tplVars,
                   peopleCore, regVars, jsonpVars>>

-----------------------------------------------------------------------------
(* Specification of one session of the application *)

NextApp ==
    \/ \E answer \in AuthAnswers : initializeAuth(answer)
    \/ \E email \in Accounts : login(email)
    \/ \E answer \in AuthAnswers : loginResponse(answer)
    \/ logout
    \/ \E page \in {"login"} \cup ProtectedPages : navigate(page)
    \/ \E outcome \in Outcomes : fetchTemplatesResponse(outcome)
    \/ \E i \in 1..Len(tplTemplates) : \E confirmed \in BOOLEAN :
          handleDeleteTemplate(i, confirmed)
    \/ \E outcome \in Outcomes : deleteTemplateResponse(outcome)
    \/ \E k \in ReadNames : \E outcome \in Outcomes : readSettles(k, outcome)
    \/ msgOpenModal
    \/ msgCloseModal
    \/ \E i \in 1..Len(msgPeople) : togglePersonSelection(i)
    \/ msgOnSubmit
    \/ \E status \in {"ok", "unauthorized", "error"} : postResponse(status)
    \/ \E outcome \in Outcomes : createMessageResponse(outcome)

SpecApp == InitApp /\ [][NextApp]_vars

-----------------------------------------------------------------------------
(* Claims about the application *)

Shown(alert) == \E i \in 1..Len(alerts) : alerts[i] = alert

\* C14: when the DELETE of a template failed at the spreadsheet API, the
\* Templates page, once handleDeleteTemplate has run to its end, has reported
\* the failure and has not reported that the template was deleted
C14_FailedDeleteIsReported ==
    [][(tplCall = "getTemplatesAfterDelete" /\ tplCall' = "none" /\ tplDeleteOutcome = "failed")
          => (Shown("Failed to delete template") /\ ~Shown("Template deleted successfully!"))']_vars

\* fetchData of the Messages page awaits its three reads
Awaited == msgCall \in {"fetch", "refetch"}

\* C15: the Messages page issues its three reads together; while the page is
\* shown its lists change only in a step that ends with all three reads
\* answered successfully; and when the messages read or the templates read
\* fails while the reads are awaited, no list changes, the user is alerted and
\* loading is false
C15_ListsReplacedJointly ==
    [][/\ (~Awaited /\ Awaited') => \A k \in ReadNames : msgReads'[k].state = "pending"
       /\ (/\ route = "messages" /\ route' = "messages"
           /\ <<msgMessages, msgPeople, msgTemplates>>' # <<msgMessages, msgPeople, msgTemplates>>)
              => Awaited /\ \A k \in ReadNames : msgReads'[k].state = "ok"
       /\ (/\ Awaited
           /\ \E k \in {"messages", "templates"} : \E outcome \in Outcomes \ {"ok"} :
                  readSettles(k, outcome))
              => /\ UNCHANGED <<msgMessages, msgPeople, msgTemplates>>
                 /\ Shown("Failed to fetch data")'
                 /\ ~msgLoading']_vars

\* after a message was sent the messages read of the reload failed: the page
\* shows the lists of its first load and has alerted
C15_Witness ==
    /\ route = "messages"
    /\ msgReads["messages"].state = "failed"
    /\ Shown("Failed to fetch data")
    /\ msgMessages # <<>>
    /\ msgPeople # <<>>
    /\ msgTemplates # <<>>
    /\ ~msgLoading

\* somebody is signed in through login and the token login stored is in storage
LoggedIn == authUser # NoUser /\ localStorage["auth_token"] = TokenOf(localStorage["auth_user"])

\* C16: when a user who logged in through the AuthProvider submits a message,
\* the Messages page finds the token login stored and first posts the message
\* to /api/messages with that token as bearer
C16_SendPostsWithLoginToken ==
    [][(LoggedIn /\ ~msgSending /\ msgSending')
          => (msgCall' = "post" /\ msgBearer' = localStorage["auth_token"])]_vars

-----------------------------------------------------------------------------
(* Deleting a person *)

Records(roster) == {roster[i] : i \in 1..Len(roster)}

\* C18: a DELETE request is sent only in a step in which the user accepted the
\* confirmation for a record of the roster, and it names that record; a
\* declined confirmation leaves roster, submitting, the request slot and the
\* sheet as they were; an accepted delete that succeeds removes from the roster
\* the record with the requested id and nothing else
C18_DeleteOnlyWhenConfirmed ==
    [][\A t \in Tabs :
        /\ (request'[t].action = "DELETE" /\ request[t].action # "DELETE") =>
               /\ dialog'[t] = "accepted"
               /\ \E p \in Records(people[t]) : p.id = request'[t].id
        /\ dialog'[t] = "declined" =>
               UNCHANGED <<people, submitting, request, sheet>>
        /\ deleteResponse(t, "ok") =>
               /\ Records(people'[t]) = {p \in Records(people[t]) : p.id # request[t].id}
               /\ Len(people'[t]) = Len(people[t]) - 1
               /\ Records(sheet') = {p \in Records(sheet) : p.id # request[t].id}]_vars

\* a delete was confirmed and succeeded: one of the two records is left
C18_Witness ==
    \E t \in Tabs :
        /\ dialog[t] = "deleted"
        /\ Len(people[t]) = 1
        /\ Len(sheet) = 1

-----------------------------------------------------------------------------
(* The two validators *)

\* C19: for every candidate record, roster and excluded id the validator of
\* the earlier page variant ends like the safeString-based one, with the same
\* error for each field
C19_ValidatorsAgree ==
    vRan => vEarlier = [throws |-> FALSE, errors |-> vErrors]

-----------------------------------------------------------------------------
(* Requests in flight together *)

\* C20: with several JSONP requests in flight, a request is resolved only with
\* the response to itself, and the events of one request (its script running
\* or failing, its timeouts) neither settle the promise of another request nor
\* remove the callback another request has registered
C20_RequestsDoNotInterfere ==
    /\ [](\A r \in Requests : promise[r] = "resolved" => settledWith[r] = r)
    /\ [][\A r \in Requests :
            (scriptRuns(r) \/ onerror(r) \/ postLoadTimeout(r) \/ overallTimeout(r)) =>
                \A q \in Requests \ {r} :
                    /\ promise'[q] = promise[q]
                    /\ (promise[q] = "pending" /\ window[callbackName[q]] = q)
                           => window'[callbackName[q]] = q]_vars

-----------------------------------------------------------------------------
(* Two sessions editing one record *)

\* what each of the two users types into the phone input of the edited row
RaceTyped(t, f) ==
    IF f # "phone" THEN {}
    ELSE IF t = "tab1" THEN {<<"9000000001">>}
    ELSE {<<"9000000002">>, <<>>}

\* rows of the sheet with a name and a phone only
Kavi ==
    [id |-> "p3", name |-> Str(<<"Kavi">>), direction |-> "East",
     phone |-> Str(<<"9000000003">>), aadharNumber |-> EmptyString,
     panNumber |-> EmptyString, voterIdNumber |-> EmptyString]

Devi ==
    [id |-> "p4", name |-> Str(<<"Devi">>), direction |-> "East",
     phone |-> Str(<<"9000000004">>), aadharNumber |-> EmptyString,
     panNumber |-> EmptyString, voterIdNumber |-> EmptyString]

InitRace ==
    /\ PageInit(Tabs, [t \in Tabs |-> {"edit"}], {Superadmin},
                {<<Asha, Ravi>>, <<Kavi, Devi>>}, MaxTabWrites)
    /\ HarnessIdle
    /\ OthersIdle

NextRace ==
    \E t \in Tabs :
        \/ \E outcome \in Outcomes : fetchData(t, outcome)
        \/ \E i \in 1..Len(people[t]) : startEdit(t, i)
        \/ cancelEdit(t)
        \/ \E f \in UniqueFields : \E typed \in RaceTyped(t, f) : handleEditChange(t, f, typed)
        \/ editTimerFire(t)
        \/ updatePerson(t)
        \/ \E outcome \in Outcomes : updateResponse(t, outcome)

SpecRace == InitRace /\ [][NextRace]_vars

\* the fields of an UPDATE request that reach the sheet
Carried(data) == {f \in PersonFields \ {"id", "direction"} : data[f].t # "undefined"}

\* C21: with two sessions on one roster, a save whose values collide with
\* nothing in the session's own roster sends its UPDATE whatever the other
\* session has sent or the sheet holds by then; each UPDATE the store processes
\* leaves its values in the remote record, so the record ends with those of the
\* update processed last, while the roster of each session shows the values
\* that session saved and nothing of the other's
C21_LastUpdateWins ==
    [][\A t \in Tabs :
         /\ (/\ request[t].action = "none"
             /\ request'[t].action = "UPDATE")
               => /\ request'[t].id = editingId[t]
                  /\ \A f \in UniqueFields :
                         Colliders(f, editData[t], people[t], editingId[t]) = {}
                  /\ \A f \in {"name", "phone", "aadharNumber"} :
                         request'[t].data[f] =
                             IF Truthy(editData[t][f])
                             THEN Str(safeString(editData[t][f])) ELSE Undefined
         /\ (request[t].action = "UPDATE" /\ dialog'[t] = "updated")
               => /\ \A i \in WithId(sheet', request[t].id) :
                         \A f \in Carried(request[t].data) :
                             sheet'[i][f] = request[t].data[f]
                  /\ \A i \in 1..Len(sheet) :
                         sheet[i].id # request[t].id => sheet'[i] = sheet[i]
                  /\ \A i \in WithId(people'[t], request[t].id) :
                         \A f \in {"name", "phone", "aadharNumber"} :
                             people'[t][i][f] = request[t].data[f]
                  /\ \A u \in Tabs \ {t} : people'[u] = people[u]]_vars

\* both sessions saved a phone for Ravi while the other's save was in flight:
\* the sheet holds the second user's, each roster its own user's
C21_Witness ==
    /\ \A t \in Tabs : quota[t] = 0 /\ request[t].action = "none"
    /\ \E i \in WithId(sheet, Ravi.id) : sheet[i].phone = Str(<<"9000000002">>)
    /\ \E i \in WithId(people["tab1"], Ravi.id) :
           people["tab1"][i].phone = Str(<<"9000000001">>)
    /\ \E i \in WithId(people["tab2"], Ravi.id) :
           people["tab2"][i].phone = Str(<<"9000000002">>)

-----------------------------------------------------------------------------
(* The write handlers, event by event *)

\* write requests a page can have in flight in one run
MaxInFlight == 2

\* the three write handlers and the request each sends
WriteHandlers == {"onSubmit", "updatePerson", "deletePerson"}

ActionOf(handler) ==
    CASE handler = "onSubmit" -> "CREATE"
      [] handler = "updatePerson" -> "UPDATE"
      [] handler = "deletePerson" -> "DELETE"

InitEvents ==
    /\ PageInit(Tabs, [t \in Tabs |-> {}], {Superadmin}, {<<>>}, 0)
    /\ HarnessIdle
    /\ OthersIdle

\* variant of writeEvent: the handler reads the current state, not the value
\* its closure captured
writeEventFresh(t, handler) ==
    /\ t \in open
    /\ ~closureSubmitting[t]
    /\ ~submitting[t]
    /\ Len(inFlight[t]) < MaxInFlight
    /\ submitting' = [submitting EXCEPT ![t] = TRUE]
    /\ inFlight' = [inFlight EXCEPT ![t] = Append(inFlight[t], ActionOf(handler))]
    /\ closureSubmitting' =
           [closureSubmitting EXCEPT ![t] = handler # "onSubmit"]
    /\ quiet
    /\ UNCHANGED <<sheet, created, quota, gestures, fetched, user, open, loading, people,
                   showModal, editingId, editData, formValues, addValidationErrors,
                   editValidationErrors, addTimer, editTimer, request, harnessVars,
                   jsonpVars, appVars, dashVars, msgSelectedPeople, regVars>>

\* a submit, Save or confirmed Delete event reaches its handler: the button is
\* enabled in the DOM of the last render and `if (submitting) return` reads the
\* value of that render; the handler calls setSubmitting(true) and sends its
\* request.  Save and Delete call it inside the click handler, so React renders
\* before the next event; onSubmit is called by handleSubmit after its awaited
\* form validation, and the render it asks for is a later task
writeEvent(t, handler) ==
    /\ t \in open
    /\ ~closureSubmitting[t]
    /\ Len(inFlight[t]) < MaxInFlight
    /\ submitting' = [submitting EXCEPT ![t] = TRUE]
    /\ inFlight' = [inFlight EXCEPT ![t] = Append(inFlight[t], ActionOf(handler))]
    /\ closureSubmitting' =
           [closureSubmitting EXCEPT ![t] = handler # "onSubmit"]
    /\ quiet
    /\ UNCHANGED <<sheet, created, quota, gestures, fetched, user, open, loading, people,
                   showModal, editingId, editData, formValues, addValidationErrors,
                   editValidationErrors, addTimer, editTimer, request, harnessVars,
                   jsonpVars, appVars, dashVars, msgSelectedPeople, regVars>>

\* React renders the page: the handlers are created anew over the current state
render(t) ==
    /\ t \in open
    /\ closureSubmitting[t] # submitting[t]
    /\ closureSubmitting' = [closureSubmitting EXCEPT ![t] = submitting[t]]
    /\ quiet
    /\ UNCHANGED <<sheet, created, quota, gestures, fetched, user, open, loading, people,
                   showModal, submitting, editingId, editData, formValues,
                   addValidationErrors, editValidationErrors, addTimer, editTimer, request,
                   harnessVars, inFlight, jsonpVars, appVars, dashVars, msgSelectedPeople, regVars>>

\* one of the requests in flight settles: finally { setSubmitting(false) }
writeSettles(t, i) ==
    /\ t \in open
    /\ i \in 1..Len(inFlight[t])
    /\ inFlight' = [inFlight EXCEPT ![t] =
           SubSeq(inFlight[t], 1, i - 1) \o SubSeq(inFlight[t], i + 1, Len(inFlight[t]))]
    /\ submitting' = [submitting EXCEPT ![t] = FALSE]
    /\ quiet
    /\ UNCHANGED <<sheet, created, quota, gestures, fetched, user, open, loading, people,
                   showModal, editingId, editData, formValues, addValidationErrors,
                   editValidationErrors, addTimer, editTimer, request, harnessVars,
                   closureSubmitting, jsonpVars, appVars, dashVars, msgSelectedPeople, regVars>>

NextEvents ==
    \E t \in Tabs :
        \/ \E handler \in WriteHandlers : writeEvent(t, handler)
        \/ render(t)
        \/ \E i \in 1..MaxInFlight : writeSettles(t, i)

SpecEvents == InitEvents /\ [][NextEvents]_vars

\* C22: a page session never has two People write requests in flight
C22_OneWriteInFlight ==
    \A t \in Tabs : Len(inFlight[t]) <= 1

\* C23: whenever the AuthProvider has a user, browser storage holds an auth
\* token, and it is the token that was issued to or verified for that user
C23_UserHasOwnToken ==
    authUser # NoUser =>
        /\ localStorage["auth_token"] # "none"
        /\ authUser = UserOf(OwnerOf(localStorage["auth_token"]))

-----------------------------------------------------------------------------
(* The roster as loaded *)

\* C24: when no two rows of the sheet share a value in a unique field in which
\* both have one, a successful load gives a roster without two colliding
\* records, and a loaded record put in edit mode and saved as it is passes the
\* uniqueness validation
C24_LoadedRosterHasNoCollision ==
    [][\A t \in Tabs :
         /\ (fetchData(t, "ok") /\ NoSharedValues(sheet)) => NoSharedValues(people'[t])
         /\ (/\ updatePerson(t)
             /\ NoSharedValues(sheet)
             /\ people[t] = convertToPeople(sheet)
             /\ \E i \in 1..Len(people[t]) : editData[t] = people[t][i])
               => ~hasErrors(editValidationErrors'[t])]_vars

-----------------------------------------------------------------------------
(* Dashboard.tsx, next to the People and Messages pages on the same sheets *)

\* the People sheets and the Messages sheets the three pages are loaded from
CountedPeople == {<<>>, <<Asha, Ravi>>, <<Kavi, Devi>>}

CountedMessages ==
    {<<>>,
     <<[id |-> "m1", direction |-> "West"], [id |-> "m2", direction |-> ""]>>,
     <<[id |-> "m1", direction |-> "East"], [id |-> "m2", direction |-> "All"]>>}

\* the same user has the People page, the Messages page and the Dashboard
\* mounted over the same sheets, each about to load
InitCounts ==
    /\ PageInit({"tab1"}, [t \in Tabs |-> {}], Users, CountedPeople, 0)
    /\ HarnessIdle
    /\ JsonpIdle
    /\ DashboardIdle
    /\ RegisterIdle
    /\ route = "messages"
    /\ alerts = <<>>
    /\ localStorage = EmptyStorage
    /\ authUser = user["tab1"]
    /\ authLoading = FALSE
    /\ authError = "null"
    /\ authVerify = "none"
    /\ authLogin = "none"
    /\ msgSheet \in CountedMessages
    /\ msgQuota = 0
    /\ msgMessages = <<>>
    /\ msgPeople = <<>>
    /\ msgTemplates = <<>>
    /\ msgLoading = TRUE
    /\ msgSending = FALSE
    /\ msgShowModal = FALSE
    /\ msgSelectedPeople = {}
    /\ msgReads = [k \in ReadNames |-> [state |-> "pending", data |-> <<>>]]
    /\ msgCall = "fetch"
    /\ msgPath = "none"
    /\ msgBearer = "none"
    /\ tplSheet = <<>>
    /\ tplQuota = 0
    /\ TemplatesUnmounted

\* peopleCount of fetchDashboardData, from the rows of the response
dashboardPeople(u, data) ==
    IF u.role = "superadmin" THEN Len(data)
    ELSE IF u.role = "admin" /\ u.direction # ""
    THEN Len(SelectSeq(data, LAMBDA person : person.direction = u.direction))
    ELSE 0

\* messagesCount of fetchDashboardData, from the converted messages
dashboardMessages(u, messages) ==
    IF u.role = "superadmin" THEN Len(messages)
    ELSE IF u.role = "admin" /\ u.direction # ""
    THEN Len(SelectSeq(messages, LAMBDA message :
                 message.direction = u.direction \/ message.direction = "All"))
    ELSE 0

\* fetchDashboardData: the reads follow one another, a read that throws
\* leaves its count at 0
fetchDashboardData(peopleOutcome, messagesOutcome) ==
    /\ dashLoading
    /\ LET peopleResponse == getPeople(peopleOutcome)
           messagesResponse == makeRequest(messagesOutcome, msgSheet)
           peopleCount ==
               IF ~peopleResponse.throws /\ peopleResponse.success
               THEN dashboardPeople(authUser, peopleResponse.data) ELSE 0
           messagesCount ==
               IF ~messagesResponse.throws /\ messagesResponse.success
               THEN dashboardMessages(authUser, convertToMessages(messagesResponse.data))
               ELSE 0
       IN  dashStats' = [totalPeople |-> peopleCount, totalMessages |-> messagesCount]
    /\ dashLoading' = FALSE
    /\ dashFetched' = IF peopleOutcome = "ok" /\ messagesOutcome = "ok" THEN "ok" ELSE "failed"
    /\ alerts' = <<>>
    /\ quiet
    /\ UNCHANGED <<sheet, created, quota, gestures, fetched, user, open, loading, people,
                   showModal, submitting, editingId, editData, formValues,
                   addValidationErrors, editValidationErrors, addTimer, editTimer, request,
                   harnessVars, eventVars, jsonpVars, route, authVars, msgVars, tplVars,
                   msgSelectedPeople, regVars>>

NextCounts ==
    \/ \E outcome \in Outcomes : fetchData("tab1", outcome)
    \/ \E k \in ReadNames : \E outcome \in Outcomes : readSettles(k, outcome)
    \/ \E peopleOutcome \in Outcomes : \E messagesOutcome \in Outcomes :
           fetchDashboardData(peopleOutcome, messagesOutcome)

SpecCounts == InitCounts /\ [][NextCounts]_vars

\* the three pages have loaded the sheets, every read answered successfully
AllLoaded ==
    /\ fetched["tab1"] = "ok"
    /\ dashFetched = "ok"
    /\ ~msgLoading
    /\ \A k \in ReadNames : msgReads[k].state = "ok"

\* C25: once the pages have loaded the same sheets for the same user, the
\* Dashboard's people count is the length of the People page roster and its
\* message count the length of the list of the Messages page
C25_DashboardCountsMatchPages ==
    AllLoaded =>
        /\ dashStats.totalPeople = Len(people["tab1"])
        /\ dashStats.totalMessages = Len(msgMessages)

-----------------------------------------------------------------------------
(* Leaving edit mode *)

\* C26: cancelEdit clears the edit mode (no editing id, empty edit data, no edit
\* errors) and leaves the roster as it is, and the record that was being edited
\* keeps its values from then on, also when a save of that row was in flight
\* when the edit was cancelled
C26_CancelKeepsRecord ==
    [][\A t \in Tabs :
         /\ cancelEdit(t) =>
               /\ editingId'[t] = NoId
               /\ editData'[t] = EmptyEdit
               /\ editValidationErrors'[t] = NoErrors
               /\ people'[t] = people[t]
         /\ (editingId[t] = NoId /\ request[t].action = "UPDATE") =>
               /\ people'[t] = people[t]
               /\ sheet' = sheet]_vars

-----------------------------------------------------------------------------
(* What a successful update does to the roster *)

\* C27: a successful update leaves the length and order of the roster and every
\* record with another id as they were; in the updated record name, phone and
\* Aadhaar are defined and hold the normalized value that was saved, and PAN and
\* voter id hold the saved value or, when the edit left them empty, the one the
\* record had
C27_UpdateChangesOneRecord ==
    [][\A t \in Tabs :
         (request[t].action = "UPDATE" /\ dialog'[t] = "updated") =>
             LET data == request[t].data
             IN  /\ Len(people'[t]) = Len(people[t])
                 /\ \A i \in 1..Len(people[t]) :
                        IF people[t][i].id # request[t].id
                        THEN people'[t][i] = people[t][i]
                        ELSE /\ people'[t][i].id = people[t][i].id
                             /\ \A f \in {"name", "phone", "aadharNumber"} :
                                    /\ people'[t][i][f].t # "undefined"
                                    /\ Truthy(data[f]) => people'[t][i][f] = data[f]
                             /\ \A f \in {"panNumber", "voterIdNumber"} :
                                    people'[t][i][f] =
                                        IF Truthy(data[f]) THEN data[f]
                                        ELSE OrElse(people[t][i][f], EmptyString)]_vars

-----------------------------------------------------------------------------
(* The two error maps *)

\* C28: a validation run in add mode (the add form's timer, its submit) leaves
\* the edit-mode errors as they were and one run in edit mode (the row's timer,
\* its save) leaves the add-mode errors as they were; closing the modal empties
\* the add-mode errors and keeps the edit-mode ones; startEdit, cancelEdit and
\* a successful save empty the edit-mode errors and keep the add-mode ones
C28_ErrorMapsAreSeparate ==
    [][\A t \in Tabs :
         /\ (addTimerFire(t) \/ \E name \in Names : \E d \in FormDirections(user[t]) : onSubmit(t, name, d))
                => editValidationErrors'[t] = editValidationErrors[t]
         /\ (editTimerFire(t) \/ updatePerson(t))
                => addValidationErrors'[t] = addValidationErrors[t]
         /\ closeModal(t)
                => /\ addValidationErrors'[t] = NoErrors
                   /\ editValidationErrors'[t] = editValidationErrors[t]
         /\ ( \/ \E i \in 1..Len(people[t]) : startEdit(t, i)
              \/ cancelEdit(t)
              \/ (request[t].action = "UPDATE" /\ dialog'[t] = "updated") )
                => /\ editValidationErrors'[t] = NoErrors
                   /\ addValidationErrors'[t] = addValidationErrors[t]]_vars

\* the modal was closed with values left in its form, its errors are gone, and
\* the row being edited still shows its errors
C28_Witness ==
    \E t \in Tabs :
        /\ ~showModal[t]
        /\ formValues[t] # BlankForm
        /\ addValidationErrors[t] = NoErrors
        /\ editingId[t] # NoId
        /\ hasErrors(editValidationErrors[t])

-----------------------------------------------------------------------------
(* Messages.onSubmit: where the message is recorded *)

\* onSubmit awaits the POST, createMessage or the reload of the lists
SendAwaits == msgCall \in {"post", "createMessage", "refetch"}

\* C29: a send asks the Messages sheet to record the message once: at once when
\* no auth token is found, after the POST when it is answered ok or 401/403, and
\* not at all when the POST fails otherwise (the sheet, the modal and the
\* selection are then as they were and sending is false); the sheet gains rows
\* only through this request, one row when it succeeds, and the send makes no
\* second request; while sending, the modal is closed and the selection emptied
\* only in the step in which the row was written; sending is true exactly while
\* onSubmit awaits something and false when it ends
C29_SendRecordsOnce ==
    /\ [](route = "messages" => (msgSending <=> SendAwaits))
    /\ [][/\ (~msgSending /\ msgSending') =>
                /\ msgSheet' = msgSheet
                /\ msgCall' = IF \A key \in DOMAIN localStorage :
                                     key \in {"auth_token", "auth_user"} \/ localStorage[key] = "none"
                              THEN "createMessage" ELSE "post"
          /\ msgCall' = "createMessage" =>
                \/ msgCall = "createMessage"
                \/ ~msgSending /\ msgPath' = "noToken"
                \/ msgCall = "post" /\ msgPath' \in {"both", "unauthorized"}
          /\ (msgCall = "post" /\ msgCall' \notin {"post", "createMessage"}) =>
                /\ msgSheet' = msgSheet
                /\ msgShowModal' = msgShowModal
                /\ msgSelectedPeople' = msgSelectedPeople
                /\ ~msgSending'
                /\ Shown("Failed to send message")'
          /\ msgSheet' # msgSheet =>
                /\ msgCall = "createMessage"
                /\ msgCall' = "refetch"
                /\ Len(msgSheet') = Len(msgSheet) + 1
                /\ SubSeq(msgSheet', 1, Len(msgSheet)) = msgSheet
          /\ (msgCall = "createMessage" /\ msgCall' # "createMessage") =>
                \/ msgSheet' # msgSheet
                \/ msgCall' = "none" /\ ~msgSending' /\ Shown("Failed to send message")'
          /\ (msgSending /\ route' = "messages"
                /\ <<msgShowModal, msgSelectedPeople>>' # <<msgShowModal, msgSelectedPeople>>) =>
                /\ msgSheet' # msgSheet
                /\ ~msgShowModal'
                /\ msgSelectedPeople' = {}
          /\ (SendAwaits /\ ~SendAwaits') => ~msgSending']_vars

\* the POST was answered 401 or 403 and the message has been written to the
\* sheet: the form is closed, nobody is selected, the lists are being reloaded
C29_Witness ==
    /\ route = "messages"
    /\ msgPath = "unauthorized"
    /\ msgCall = "refetch"
    /\ Len(msgSheet) = 3
    /\ ~msgShowModal
    /\ msgSelectedPeople = {}
    /\ msgSending

-----------------------------------------------------------------------------
(* AuthProvider.register and its callers: Register page, AdminManagement page *)

\* the sampleAdmins of addSampleAdmins
sampleAdmins ==
    <<[email |-> "east.admin@example.com", direction |-> "East"],
      [email |-> "west.admin@example.com", direction |-> "West"],
      [email |-> "north.admin@example.com", direction |-> "North"],
      [email |-> "south.admin@example.com", direction |-> "South"]>>

\* what the forms of the two pages can hold; "undefined" is a direction left out
RegEmails == {"new@portal", "staff@portal"}

RegRoles == {"superadmin", "admin"}

RegDirections == {"East", "West", "undefined"}

\* the token the backend issues for a registered account
RegTokenOf(email) ==
    IF email = "new@portal" THEN "jwt_new"
    ELSE IF email = "staff@portal" THEN "jwt_staff"
    ELSE "jwt_sample"

\* the body of the POST to /auth/register
requestBody(email, role, direction) ==
    [email |-> email, role |-> role,
     direction |-> IF role = "admin" THEN direction ELSE "undefined"]

\* variant of keepsSession: every successful registration signs the account in
keepsSessionNever(role) == FALSE

\* 'if (role !== "superadmin") return true' after a successful registration
keepsSession(role) == role # "superadmin"

\* register, up to its await
register(email, role, direction) ==
    /\ authLoading' = TRUE
    /\ authError' = "null"
    /\ authRegister' = [body |-> requestBody(email, role, direction),
                        bearer |-> localStorage["auth_token"]]

InitRegister ==
    /\ PageInit({}, [t \in Tabs |-> {}], {Superadmin}, {<<Asha, Ravi>>}, 0)
    /\ HarnessIdle
    /\ JsonpIdle
    /\ DashboardIdle
    /\ RegisterIdle
    /\ alerts = <<>>
    /\ \E session \in {"none"} \cup Accounts :
          /\ localStorage =
                 [EmptyStorage EXCEPT
                     !["auth_token"] = IF session = "none" THEN "none" ELSE TokenOf(session),
                     !["auth_user"] = session]
          /\ authUser = IF session = "none" THEN NoUser ELSE UserOf(session)
          /\ route \in IF session = "super@portal" THEN {"register", "admin"} ELSE {"register"}
    /\ authLoading = FALSE
    /\ authError = "null"
    /\ authVerify = "none"
    /\ authLogin = "none"
    /\ msgSheet = <<>>
    /\ msgQuota = 0
    /\ MessagesUnmounted
    /\ tplSheet = <<>>
    /\ tplQuota = 0
    /\ TemplatesUnmounted

\* Register.onSubmit, up to the await in register
regOnSubmit(email, role, direction) ==
    /\ route = "register"
    /\ regPage = "form"
    /\ authRegister = NoRegister
    /\ regPage' = "sending"
    /\ register(email, role, direction)
    /\ UNCHANGED <<route, alerts, localStorage, authUser, authVerify, authLogin, msgVars, tplVars,
                   admSubmitting, admMessage, admCall, admSample, admSuccessCount,
                   peopleCore, msgSelectedPeople, jsonpVars>>

\* AdminManagement.onSubmit, up to the await in register
admOnSubmit(email, direction) ==
    /\ route = "admin"
    /\ authUser.role = "superadmin"
    /\ ~admSubmitting
    /\ authRegister = NoRegister
    /\ admSubmitting' = TRUE
    /\ admMessage' = "null"
    /\ admCall' = "create"
    /\ register(email, "admin", direction)
    /\ UNCHANGED <<route, alerts, localStorage, authUser, authVerify, authLogin, msgVars, tplVars,
                   regPage, admSample, admSuccessCount, peopleCore, msgSelectedPeople, jsonpVars>>

\* the "Add Sample Admins" button, up to the await in the first register
addSampleAdmins ==
    /\ route = "admin"
    /\ authUser.role = "superadmin"
    /\ ~admSubmitting
    /\ authRegister = NoRegister
    /\ admSubmitting' = TRUE
    /\ admMessage' = "null"
    /\ admCall' = "sample"
    /\ admSample' = 1
    /\ admSuccessCount' = 0
    /\ register(sampleAdmins[1].email, "admin", sampleAdmins[1].direction)
    /\ UNCHANGED <<route, alerts, localStorage, authUser, authVerify, authLogin, msgVars, tplVars,
                   regPage, peopleCore, msgSelectedPeople, jsonpVars>>

\* the POST to /auth/register is answered: the rest of register, then of its
\* caller up to the caller's next await
registerResponse(answer) ==
    /\ authRegister # NoRegister
    /\ LET body == authRegister.body
           success == answer = "ok"
       IN  /\ authRegister' = NoRegister
           /\ authLoading' = FALSE
           /\ authError' = IF success THEN authError
                           ELSE IF answer = "rejected" THEN "Registration failed"
                           ELSE "Network error"
           /\ IF success /\ ~keepsSession(body.role)
              THEN /\ localStorage' =
                          setItem(setItem(localStorage, "auth_token", RegTokenOf(body.email)),
                                  "auth_user", body.email)
                   /\ authUser' = [role |-> body.role, direction |-> ""]
              ELSE UNCHANGED <<localStorage, authUser>>
           /\ IF route = "register"
              THEN /\ regPage' = IF success THEN "success" ELSE "form"
                   /\ UNCHANGED <<admSubmitting, admMessage, admCall, admSample, admSuccessCount>>
              ELSE IF admCall = "create"
              THEN /\ IF success
                      THEN /\ admCall' = "fetchAdmins"
                           /\ UNCHANGED <<admSubmitting, admMessage>>
                      ELSE /\ admCall' = "none"
                           /\ admSubmitting' = FALSE
                           /\ admMessage' = "Failed to create admin"
                   /\ UNCHANGED <<regPage, admSample, admSuccessCount>>
              ELSE /\ admSuccessCount' = IF success THEN admSuccessCount + 1 ELSE admSuccessCount
                   /\ admCall' = "delay"
                   /\ UNCHANGED <<regPage, admSubmitting, admMessage, admSample>>
    /\ UNCHANGED <<route, alerts, authVerify, authLogin, msgVars, tplVars, peopleCore,
                   msgSelectedPeople, jsonpVars>>

\* the 500 ms delay of addSampleAdmins is over: the next sample admin is
\* registered, or the list is fetched after the last one
sampleDelay ==
    /\ admCall = "delay"
    /\ IF admSample < Len(sampleAdmins)
       THEN /\ admSample' = admSample + 1
            /\ admCall' = "sample"
            /\ register(sampleAdmins[admSample + 1].email, "admin",
                        sampleAdmins[admSample + 1].direction)
       ELSE /\ admSample' = 0
            /\ admCall' = "fetchSampleAdmins"
            /\ UNCHANGED <<authLoading, authError, authRegister>>
    /\ UNCHANGED <<route, alerts, localStorage, authUser, authVerify, authLogin, msgVars, tplVars,
                   regPage, admSubmitting, admMessage, admSuccessCount, peopleCore,
                   msgSelectedPeople, jsonpVars>>

\* fetchAdmins, awaited by onSubmit or addSampleAdmins, settles, and the caller
\* runs to its end (the list of admins itself is not part of the state here)
fetchAdminsResponse(listed) ==
    /\ admCall \in {"fetchAdmins", "fetchSampleAdmins"}
    /\ admCall' = "none"
    /\ admSubmitting' = FALSE
    /\ admMessage' = IF admCall = "fetchAdmins" THEN "Admin created successfully!"
                     ELSE IF admSuccessCount > 0 THEN "Successfully created sample admins"
                     ELSE "Failed to create sample admins"
    /\ UNCHANGED <<route, alerts, authVars, msgVars, tplVars, authRegister, regPage, admSample,
                   admSuccessCount, peopleCore, msgSelectedPeople, jsonpVars>>

\* the timeout of the Register page after a success: navigate('/login')
regRedirect ==
    /\ route = "register"
    /\ regPage = "success"
    /\ route' = "login"
    /\ regPage' = "form"
    /\ UNCHANGED <<alerts, authVars, msgVars, tplVars, authRegister, admSubmitting, admMessage,
                   admCall, admSample, admSuccessCount, peopleCore, msgSelectedPeople, jsonpVars>>

NextRegister ==
    \/ \E email \in RegEmails : \E role \in RegRoles : \E direction \in RegDirections :
          regOnSubmit(email, role, direction)
    \/ \E email \in RegEmails : \E direction \in RegDirections \ {"undefined"} :
          admOnSubmit(email, direction)
    \/ addSampleAdmins
    \/ \E answer \in AuthAnswers : registerResponse(answer)
    \/ sampleDelay
    \/ \E listed \in BOOLEAN : fetchAdminsResponse(listed)
    \/ regRedirect

SpecRegister == InitRegister /\ [][NextRegister]_vars

\* C30: when a registration with role admin is answered, with success or
\* without, the context user and the stored token and user are as they were;
\* when a registration with role superadmin is answered with success, the
\* stored token and user and the context user are those of the new account;
\* and the body of every registration request carries a direction only when
\* its role is admin
C30_AdminRegistrationKeepsSession ==
    /\ [](authRegister.body.role # "admin" => authRegister.body.direction = "undefined")
    /\ [][/\ (authRegister.body.role = "admin" /\ authRegister' # authRegister) =>
                /\ authUser' = authUser
                /\ localStorage' = localStorage
          /\ (authRegister.body.role = "superadmin" /\ authRegister' = NoRegister
                /\ authError' = authError) =>
                /\ localStorage'["auth_token"] = RegTokenOf(authRegister.body.email)
                /\ localStorage'["auth_user"] = authRegister.body.email
                /\ authUser' = Superadmin]_vars

\* the four sample admins were registered, three of them with success, by a
\* superadmin who is still signed in with their own token
C30_Witness ==
    /\ route = "admin"
    /\ admCall = "fetchSampleAdmins"
    /\ admSuccessCount = 3
    /\ authUser = Superadmin
    /\ localStorage["auth_token"] = "jwt_super"
=============================================================================
